---- MODULE Spec2Model ----
(***************************************************************************)
(* droxporter: a Prometheus exporter polling the DigitalOcean API.         *)
(*                                                                         *)
(* The module models the polling engine as state machines that share one  *)
(* set of variables:                                                       *)
(*   Spec         the key manager (token pools, fallback, rate limiter)    *)
(*   SpecLimiter  one MultiLimits value driven through its public API      *)
(*   SpecClock    the same value acquired with timestamps read off a clock *)
(*   SpecStore    the droplet inventory store, its info gauges and the cpu *)
(*                loader, with the upstream as environment                 *)
(*   SpecSched    the scheduler loops, the job counter and the restart     *)
(*                count window (SpecSchedFair: with a fair runtime)        *)
(*   SpecClient   the calls of the API client within the passes of a loop  *)
(*   SpecReconcile  the pruning of a gauge vector against the inventory    *)
(*   SpecLastValue  the sample a loader extracts from one series           *)
(*   SpecConcurrent  callers of the key manager contending for its mutex   *)
(*   SpecCall     one client request: the acquire, the HTTP exchange       *)
(*   SpecSeq      two metric loops side by side, each walking its entities *)
(*   SpecScrape   the scrape endpoint with its Basic authentication        *)
(* Times are integer milliseconds as in the source.                        *)
(***************************************************************************)
EXTENDS Integers, Sequences, FiniteSets, TLC

\* ------------------------------------------------------------------ bounds
\* Scaled-down stand-ins for the two tiers of create_key_limit
\* (250 per minute, 4500 per hour): the short tier refills faster, the long
\* tier holds more.  For these small values the f32 product of the source
\* equals the integer quotient used in RefillUnits.
LimitPerMinute == 3
MinuteMillis == 4
LimitPerHour == 4
HourMillis == 16
\* the limiters are created 10 minutes in the past: enough to fill both tiers
WarmupMillis == 16
\* the clock of the key manager runs from WarmupMillis to MaxTime
MaxTime == 19
\* number of acquire_key calls explored
MaxCalls == 4

\* the single limiter of SpecLimiter: capacities, windows and timestamps tried
MaxLimit == 4
MaxInterval == 4
MaxLimTime == 6

\* the inventory run: upstream responses (list pages and metric responses)
\* served in one run
MaxResponses == 4

\* the scheduler run: the clock starts at StartTime; a pass, and the wake-up
\* after a sleep, each take up to MaxLag ticks of TickMillis; MaxLoopPasses
\* passes of the loop are explored
StartTime == 2000
TickMillis == 500
MaxLag == 2
MaxLoopPasses == 3

\* the client run: entities of one pass, passes explored
MaxEntities == 2
MaxClientPasses == 2
MaxValue == 2
NumCallers == 2
MaxPoints == 3
MaxStamp == 2
\* two loops side by side: the longest sleep interval and the last clock tick
MaxSleep == 2
MaxSeqTime == 4
\* the scrapes answered in a run
MaxScrapes == 2

Min(a, b) == IF a <= b THEN a ELSE b

Range(s) == {s[i] : i \in 1..Len(s)}

\* ------------------------------------------------------------- rate limiter
\* RateLimiter::new: the bucket starts empty; multiplication_ratio is
\* limit / limit_interval, kept here as the pair (limit, limit_interval).
RateLimiter_new(limit, limit_interval, current_time) ==
    [remaining |-> 0, limit |-> limit, last_attempt_time |-> current_time,
     limit_interval |-> limit_interval]

\* a limiter that never refills
RefillUnits_none(rl, time_diff) == 0

\* (time_diff as f32 * self.multiplication_ratio) as usize
RefillUnits(rl, time_diff) == (time_diff * rl.limit) \div rl.limit_interval

\* the same without the clamp to the limit (a plausible slip)
RateLimiter_estimate_remaining_noclamp(rl, current_time) ==
    LET time_diff == IF current_time >= rl.last_attempt_time
                     THEN current_time - rl.last_attempt_time ELSE 0
        next_count == rl.remaining + RefillUnits(rl, time_diff)
    IN  IF next_count > 0 THEN next_count - 1 ELSE 0

\* the same keeping no permit back (the -1 dropped)
RateLimiter_estimate_remaining_noreserve(rl, current_time) ==
    LET time_diff == IF current_time >= rl.last_attempt_time
                     THEN current_time - rl.last_attempt_time ELSE 0
    IN  Min(rl.remaining + RefillUnits(rl, time_diff), rl.limit)

\* RateLimiter::estimate_remaining
RateLimiter_estimate_remaining(rl, current_time) ==
    LET time_diff == IF current_time >= rl.last_attempt_time
                     THEN current_time - rl.last_attempt_time ELSE 0
        next_count == Min(rl.remaining + RefillUnits(rl, time_diff), rl.limit)
    IN  IF next_count > 0 THEN next_count - 1 ELSE 0

\* RateLimiter::can_acquire
RateLimiter_can_acquire(rl, current_time) ==
    RateLimiter_estimate_remaining(rl, current_time) > 0

\* RateLimiter::acquire: the pair (returned bool, limiter afterwards)
RateLimiter_acquire(rl, current_time) ==
    LET next_count == RateLimiter_estimate_remaining(rl, current_time)
    IN  IF next_count = 0
        THEN [ok |-> FALSE, rl |-> rl]
        ELSE [ok |-> TRUE,
              rl |-> [rl EXCEPT !.remaining = next_count,
                                !.last_attempt_time = current_time]]

\* MultiLimits::new: limit_settings is a sequence of <<limit, interval>>
MultiLimits_new(limit_settings, current_time) ==
    [idx \in 1..Len(limit_settings) |->
        RateLimiter_new(limit_settings[idx][1], limit_settings[idx][2], current_time)]

\* MultiLimits::can_acquire
MultiLimits_can_acquire(ml, current_time) ==
    \A i \in 1..Len(ml) : RateLimiter_can_acquire(ml[i], current_time)

\* MultiLimits::estimate_remaining; idx counts from 0 as in the source
MultiLimits_estimate_remaining(ml, idx, current_time) ==
    IF idx >= Len(ml) THEN 0
    ELSE RateLimiter_estimate_remaining(ml[idx + 1], current_time)

\* acquire that lets every tier decide for itself
MultiLimits_acquire_each(ml, current_time) ==
    [ok |-> MultiLimits_can_acquire(ml, current_time),
     ml |-> [i \in 1..Len(ml) |-> RateLimiter_acquire(ml[i], current_time).rl]]

\* MultiLimits::acquire: the pair (returned bool, limits afterwards)
MultiLimits_acquire(ml, current_time) ==
    IF ~MultiLimits_can_acquire(ml, current_time)
    THEN [ok |-> FALSE, ml |-> ml]
    ELSE [ok |-> TRUE,
          ml |-> [i \in 1..Len(ml) |-> RateLimiter_acquire(ml[i], current_time).rl]]

\* -------------------------------------------------------------- key manager
\* the KeyType variants modelled (three of the eleven: the default pool, one
\* pool that KeyManagerState::new always inserts, one optional pool)
KeyTypes == {"Default", "Droplets", "DropletCpu"}

\* KeyType::to_metric_type
to_metric_type(key_type) ==
    CASE key_type = "Default" -> "default"
      [] key_type = "Droplets" -> "droplets"
      [] key_type = "DropletCpu" -> "cpu"

\* create_key_limit
create_key_limit(time) ==
    MultiLimits_new(<< <<LimitPerMinute, MinuteMillis>>, <<LimitPerHour, HourMillis>> >>, time)

\* The configurations explored: what KeyManagerState::new builds `keys` from.
\* Default is always inserted, so keys.get(Default) is never None.
\* Default and Droplets are always inserted (possibly empty); DropletCpu only
\* when its metric section is configured.
KeyConfigs23 ==
    << [Default |-> <<"d">>, Droplets |-> <<"a">>],
       [Default |-> <<"d">>, Droplets |-> << >>, DropletCpu |-> <<"a", "b">>] >>

KeyConfigs ==
    { [Default |-> <<"d">>, Droplets |-> <<"a">>],
      [Default |-> <<"d">>, Droplets |-> << >>, DropletCpu |-> <<"a", "b">>],
      [Default |-> << >>, Droplets |-> << >>, DropletCpu |-> <<"a">>],
      [Default |-> <<"d", "a">>, Droplets |-> <<"a">>, DropletCpu |-> <<"b">>],
      [Default |-> << >>, Droplets |-> << >>],
      [Default |-> <<"d">>, Droplets |-> << >>, DropletCpu |-> <<"a">>] }

\* keys.values().flatten(): every configured token
AllKeys(ks) == UNION {Range(ks[kt]) : kt \in DOMAIN ks}

VARIABLES keys, limits, now, limits_metrics_enabled, key_error_counter,
          limits_gauge, keys_status_gauge, last_call, calls

kmVars == <<keys, limits, now, limits_metrics_enabled, key_error_counter,
            limits_gauge, keys_status_gauge, last_call, calls>>

\* the sum that max_by_key maximises
KeyScore(ml, t) ==
    MultiLimits_estimate_remaining(ml, 0, t) + MultiLimits_estimate_remaining(ml, 1, t)

\* positions of the pool whose token can acquire at t
AvailableIdx(pool, lim, t) ==
    {i \in 1..Len(pool) : pool[i] \in DOMAIN lim /\ MultiLimits_can_acquire(lim[pool[i]], t)}

\* the same choice without the can_acquire filter (a plausible slip)
available_key_nofilter(pool, lim, t) ==
    IF Len(pool) = 0 THEN "" ELSE pool[Len(pool)]

\* the same choice keeping the first of several maximal elements
available_key_first(pool, lim, t) ==
    LET avail == AvailableIdx(pool, lim, t)
    IN  IF avail = {} THEN ""
        ELSE LET best == CHOOSE i \in avail :
                            \A j \in avail :
                               \/ KeyScore(lim[pool[j]], t) < KeyScore(lim[pool[i]], t)
                               \/ (KeyScore(lim[pool[j]], t) = KeyScore(lim[pool[i]], t) /\ i <= j)
             IN  pool[best]

\* available_key of acquire_key: filter by can_acquire, then max_by_key, which
\* returns the last of several maximal elements; "" stands for None
available_key(pool, lim, t) ==
    LET avail == AvailableIdx(pool, lim, t)
    IN  IF avail = {} THEN ""
        ELSE LET best == CHOOSE i \in avail :
                            \A j \in avail :
                               \/ KeyScore(lim[pool[j]], t) < KeyScore(lim[pool[i]], t)
                               \/ (KeyScore(lim[pool[j]], t) = KeyScore(lim[pool[i]], t) /\ j <= i)
             IN  pool[best]

\* KeyManagerState::record_fail: the counter afterwards
record_fail(ks, enabled, counter, key_type) ==
    IF ~enabled THEN counter
    ELSE LET key_not_found == IF key_type \in DOMAIN ks THEN Len(ks[key_type]) = 0 ELSE TRUE
             default_key_not_found == IF "Default" \in DOMAIN ks
                                      THEN Len(ks["Default"]) = 0 ELSE TRUE
             error_type == IF key_not_found /\ default_key_not_found
                           THEN "key not found" ELSE "limit exceeded"
             label == <<to_metric_type(key_type), error_type>>
         IN  IF label \in DOMAIN counter
             THEN [counter EXCEPT ![label] = @ + 1]
             ELSE [l \in DOMAIN counter \cup {label} |->
                      IF l = label THEN 1 ELSE counter[l]]

RECURSIVE SumOver(_, _, _, _)
SumOver(S, lim, idx, t) ==
    IF S = {} THEN 0
    ELSE LET k == CHOOSE x \in S : TRUE
         IN  MultiLimits_estimate_remaining(lim[k], idx, t) + SumOver(S \ {k}, lim, idx, t)

\* KeyManagerState::record_metrics: the two gauges afterwards, as one record
record_metrics(ks, enabled, lim, gauges, t) ==
    IF ~enabled THEN gauges
    ELSE LET touched == {kt \in DOMAIN ks : Len(ks[kt]) > 0}
             active(kt) == Cardinality({k \in Range(ks[kt]) : MultiLimits_can_acquire(lim[k], t)})
         IN  [limits_gauge |->
                 [l \in DOMAIN gauges.limits_gauge \cup
                        {<<to_metric_type(kt), tf>> : kt \in touched, tf \in {"1 min", "1 hour"}} |->
                    IF \E kt \in touched : to_metric_type(kt) = l[1]
                    THEN LET kt == CHOOSE x \in touched : to_metric_type(x) = l[1]
                         IN  SumOver(Range(ks[kt]), lim, IF l[2] = "1 min" THEN 0 ELSE 1, t)
                    ELSE gauges.limits_gauge[l]],
              keys_status_gauge |->
                 [l \in DOMAIN gauges.keys_status_gauge \cup
                        {<<to_metric_type(kt), s>> : kt \in touched, s \in {"active", "exceeded"}} |->
                    IF \E kt \in touched : to_metric_type(kt) = l[1]
                    THEN LET kt == CHOOSE x \in touched : to_metric_type(x) = l[1]
                         IN  IF l[2] = "active" THEN active(kt)
                             ELSE Cardinality(Range(ks[kt])) - active(kt)
                    ELSE gauges.keys_status_gauge[l]]]

\* the same recording a failure whatever key_result is (a failure counted on
\* a successful fallback too)
acquire_key_tail_count_always(ks, enabled, key_type, r, t, tm) ==
    LET counted == [r EXCEPT !.counter = record_fail(ks, enabled, r.counter, key_type)]
    IN  IF ~r.ok THEN counted
        ELSE LET known == r.key \in DOMAIN r.limits
                 a == IF known THEN MultiLimits_acquire(r.limits[r.key], t)
                      ELSE [ok |-> FALSE, ml |-> << >>]
                 lim2 == IF known THEN [r.limits EXCEPT ![r.key] = a.ml] ELSE r.limits
             IN  [counted EXCEPT !.limits = lim2,
                                 !.acquired = IF a.ok THEN Append(@, r.key) ELSE @,
                                 !.gauges = record_metrics(ks, enabled, lim2, r.gauges, tm)]

\* the same stamping the requested pool's limiters with the time of a failed
\* call (a slip that touches rate state before the `?`)
acquire_key_tail_touches_on_failure(ks, enabled, key_type, r, t, tm) ==
    IF ~r.ok
    THEN LET pool == IF key_type \in DOMAIN ks THEN Range(ks[key_type]) ELSE {}
         IN  [r EXCEPT !.counter = record_fail(ks, enabled, r.counter, key_type),
                       !.limits = [k \in DOMAIN r.limits |->
                                     IF k \in pool
                                     THEN [i \in 1..Len(r.limits[k]) |->
                                             [r.limits[k][i] EXCEPT !.last_attempt_time = t]]
                                     ELSE r.limits[k]]]
    ELSE LET known == r.key \in DOMAIN r.limits
             a == IF known THEN MultiLimits_acquire(r.limits[r.key], t)
                  ELSE [ok |-> FALSE, ml |-> << >>]
             lim2 == IF known THEN [r.limits EXCEPT ![r.key] = a.ml] ELSE r.limits
         IN  [r EXCEPT !.limits = lim2,
                       !.acquired = IF a.ok THEN Append(@, r.key) ELSE @,
                       !.gauges = record_metrics(ks, enabled, lim2, r.gauges, tm)]

\* the same charging a copy of the limiter (KeyLimit is Copy): the stored
\* rate state of the token is left as it was
acquire_key_tail_on_copy(ks, enabled, key_type, r, t, tm) ==
    IF ~r.ok
    THEN [r EXCEPT !.counter = record_fail(ks, enabled, r.counter, key_type)]
    ELSE LET known == r.key \in DOMAIN r.limits
             a == IF known THEN MultiLimits_acquire(r.limits[r.key], t)
                  ELSE [ok |-> FALSE, ml |-> << >>]
         IN  [r EXCEPT !.acquired = IF a.ok THEN Append(@, r.key) ELSE @,
                       !.gauges = record_metrics(ks, enabled, r.limits, r.gauges, tm)]

\* The part of acquire_key after key_result is known (record_fail, `?`, the
\* limiter's acquire, record_metrics).  r is the key_result with the state it
\* was computed in; t is the current_time of this call, tm the clock when
\* record_metrics runs.
acquire_key_tail(ks, enabled, key_type, r, t, tm) ==
    IF ~r.ok
    THEN [r EXCEPT !.counter = record_fail(ks, enabled, r.counter, key_type)]
    ELSE LET known == r.key \in DOMAIN r.limits
             a == IF known THEN MultiLimits_acquire(r.limits[r.key], t)
                  ELSE [ok |-> FALSE, ml |-> << >>]
             lim2 == IF known THEN [r.limits EXCEPT ![r.key] = a.ml] ELSE r.limits
         IN  [r EXCEPT !.limits = lim2,
                       !.acquired = IF a.ok THEN Append(@, r.key) ELSE @,
                       !.gauges = record_metrics(ks, enabled, lim2, r.gauges, tm)]

\* KeyManagerState::acquire_key.  st is the manager's mutable state
\* [limits, counter, gauges]; times are the successive readings of Utc::now()
\* (the call itself, then the recursive call).  The result carries the state
\* afterwards and `acquired`, the tokens whose limiter's acquire returned true.
RECURSIVE acquire_key(_, _, _, _, _)
acquire_key(ks, enabled, st, key_type, times) ==
    LET current_time == times[1]
        tm == times[Len(times)]
        rest == IF Len(times) > 1 THEN Tail(times) ELSE times
        err(msg) == [ok |-> FALSE, key |-> "", error |-> msg, limits |-> st.limits,
                     counter |-> st.counter, gauges |-> st.gauges,
                     acquired |-> st.acquired, fellback |-> st.fellback]
    IN  IF key_type \notin DOMAIN ks
        THEN IF key_type = "Default"
             THEN err("Api Key Not Found")
             ELSE \* return is important here to prevent double acquiring
                  acquire_key(ks, enabled, [st EXCEPT !.fellback = TRUE], "Default", rest)
        ELSE LET k == available_key(ks[key_type], st.limits, current_time)
             IN  IF k = ""
                 THEN IF key_type = "Default"
                      THEN err("Available Api Key Not Found Or Limit exceeded")
                      ELSE acquire_key_tail(ks, enabled, key_type,
                              acquire_key(ks, enabled, [st EXCEPT !.fellback = TRUE],
                                          "Default", rest),
                              current_time, tm)
                 ELSE acquire_key_tail(ks, enabled, key_type,
                         [ok |-> TRUE, key |-> k, error |-> "", limits |-> st.limits,
                          counter |-> st.counter, gauges |-> st.gauges,
                          acquired |-> st.acquired, fellback |-> st.fellback],
                         current_time, tm)

NoCall == [key_type |-> "", ok |-> FALSE, key |-> "", error |-> "", acquired |-> << >>,
           fellback |-> FALSE, t0 |-> 0, t1 |-> 0, before |-> << >>, counter_before |-> << >>]

\* KeyManagerState::new: every token gets a limiter created 10 minutes ago
InitKeys ==
    /\ keys \in KeyConfigs
    /\ now = WarmupMillis
    /\ limits = [k \in AllKeys(keys) |-> create_key_limit(now - WarmupMillis)]
    /\ limits_metrics_enabled \in BOOLEAN
    /\ key_error_counter = << >>
    /\ limits_gauge = << >>
    /\ keys_status_gauge = << >>
    /\ last_call = NoCall
    /\ calls = 0

\* KeyManagerImpl::acquire_key: one call under the mutex; dt is the time that
\* passes between the call's Utc::now() and that of the recursive call
AcquireKey(key_type, dt) ==
    /\ calls < MaxCalls
    /\ now + dt <= MaxTime
    /\ LET st == [limits |-> limits, counter |-> key_error_counter,
                  gauges |-> [limits_gauge |-> limits_gauge,
                              keys_status_gauge |-> keys_status_gauge],
                  acquired |-> << >>, fellback |-> FALSE]
           r == acquire_key(keys, limits_metrics_enabled, st, key_type, <<now, now + dt>>)
       IN  /\ limits' = r.limits
           /\ key_error_counter' = r.counter
           /\ limits_gauge' = r.gauges.limits_gauge
           /\ keys_status_gauge' = r.gauges.keys_status_gauge
           /\ now' = IF r.fellback THEN now + dt ELSE now
           /\ last_call' = [key_type |-> key_type, ok |-> r.ok, key |-> r.key,
                            error |-> r.error, acquired |-> r.acquired,
                            fellback |-> r.fellback, t0 |-> now,
                            t1 |-> IF r.fellback THEN now + dt ELSE now,
                            before |-> limits, counter_before |-> key_error_counter]
    /\ calls' = calls + 1
    /\ UNCHANGED <<keys, limits_metrics_enabled>>

\* the wall clock advances
Tick ==
    /\ now < MaxTime
    /\ now' = now + 1
    /\ UNCHANGED <<keys, limits, limits_metrics_enabled, key_error_counter,
                   limits_gauge, keys_status_gauge, last_call, calls>>

\* the key manager is not part of the run
KeysIdle ==
    /\ keys = << >>
    /\ limits = << >>
    /\ now = 0
    /\ limits_metrics_enabled = FALSE
    /\ key_error_counter = << >>
    /\ limits_gauge = << >>
    /\ keys_status_gauge = << >>
    /\ last_call = NoCall
    /\ calls = 0

\* ------------------------------------------------- one limiter, used directly
\* limiter is a MultiLimits value; lim_op records the last call on it:
\* the operation, its timestamp, what it returned, the limiter before it and
\* whether the last acquire before it had failed (the limiter was exhausted);
\* granted counts, per timestamp, the acquires that returned true when the
\* caller takes its timestamps from a clock
VARIABLES limiter, lim_op, granted

limVars == <<limiter, lim_op, granted>>

\* the limit_settings tried: every single tier within the bounds, and two
\* two-tier settings shaped like those of the unit tests
LimiterSettings ==
    {<< <<l, w>> >> : l \in 1..MaxLimit, w \in 1..MaxInterval}
    \cup {<< <<2, 2>>, <<MaxLimit, 2 * MaxInterval>> >>, << <<3, 3>>, <<3, 3>> >>}

NoOp == [op |-> "new", t |-> 0, ok |-> FALSE, before |-> << >>, exhausted |-> FALSE]

NoneGranted == [t \in 0..MaxLimTime |-> 0]

InitLimiter ==
    /\ limiter \in {MultiLimits_new(s, 0) : s \in LimiterSettings}
    /\ lim_op = NoOp
    /\ granted = NoneGranted

LimiterIdle ==
    /\ limiter = << >>
    /\ lim_op = NoOp
    /\ granted = NoneGranted


\* MultiLimits::acquire at a timestamp of the caller's choice
LimAcquire(t) ==
    /\ LET a == MultiLimits_acquire(limiter, t)
       IN  /\ limiter' = a.ml
           /\ lim_op' = [op |-> "acquire", t |-> t, ok |-> a.ok, before |-> limiter,
                         exhausted |-> ~a.ok]
    /\ UNCHANGED granted

\* MultiLimits::can_acquire at a timestamp of the caller's choice
LimCanAcquire(t) ==
    /\ lim_op' = [op |-> "can_acquire", t |-> t, ok |-> MultiLimits_can_acquire(limiter, t),
                  before |-> limiter, exhausted |-> lim_op.exhausted]
    /\ UNCHANGED <<limiter, granted>>

\* MultiLimits::acquire by a caller that reads a clock: the timestamp is that
\* of the call before plus dt (key_manager.rs passes Utc::now())
ClockAcquire(dt) ==
    /\ lim_op.t + dt <= MaxLimTime
    /\ LET t == lim_op.t + dt
           a == MultiLimits_acquire(limiter, t)
       IN  /\ limiter' = a.ml
           /\ lim_op' = [op |-> "acquire", t |-> t, ok |-> a.ok, before |-> limiter,
                         exhausted |-> ~a.ok]
           /\ granted' = [granted EXCEPT ![t] = IF a.ok THEN @ + 1 ELSE @]

\* ------------------------------------------------------- inventory stores
\* DropletStoreImpl and AppStoreImpl are two copies of one design, and so are
\* load_cpu_metrics and load_cpu_percentage; they share no state.  A run
\* explores one of them, chosen by `kind`.
Kinds == {"droplet", "app"}

\* per_page of load_droplets / load_apps
per_page == 100

\* BasicDropletInfo values the upstream may list ("a" changes between listings)
DropletA == [id |-> 1, name |-> "a", memory |-> 1, vcpus |-> 1, disk |-> 1,
             locked |-> FALSE, status |-> "active"]

DropletB == [id |-> 2, name |-> "b", memory |-> 2, vcpus |-> 2, disk |-> 2,
             locked |-> FALSE, status |-> "active"]

DropletA2 == [id |-> 1, name |-> "a", memory |-> 2, vcpus |-> 1, disk |-> 1,
              locked |-> FALSE, status |-> "off"]

\* AppResponse values the upstream may list; active_deployment "" is None
AppRespA == [id |-> "1", spec_name |-> "a", active_deployment |-> "ACTIVE"]

AppRespB == [id |-> "2", spec_name |-> "b", active_deployment |-> "ACTIVE"]

AppRespA2 == [id |-> "1", spec_name |-> "a", active_deployment |-> ""]

\* From<DropletResponse> for BasicDropletInfo: a field-by-field copy
BasicDropletInfo_from(value) ==
    [id |-> value.id, name |-> value.name, memory |-> value.memory, vcpus |-> value.vcpus,
     disk |-> value.disk, locked |-> value.locked, status |-> value.status]

\* From<AppResponse> for BasicAppInfo
BasicAppInfo_from(value) ==
    [id |-> value.id, name |-> value.spec_name,
     active_deployment_phase |-> IF value.active_deployment # ""
                                 THEN value.active_deployment ELSE "UNKNOWN"]

\* what one page of a listing may hold
PageEntries(k) ==
    IF k = "droplet" THEN {<< >>, <<DropletA>>, <<DropletB>>, <<DropletA2>>}
    ELSE {<< >>, <<AppRespA>>, <<AppRespB>>, <<AppRespA2>>}

\* what client.list_droplets / list_apps may return: an error (key error,
\* non-2xx, transport, decode) or a page with or without links.pages.next
ListResponses(k) ==
    {[ok |-> FALSE, entries |-> << >>, next |-> FALSE]}
    \cup {[ok |-> TRUE, entries |-> e, next |-> n] : e \in PageEntries(k), n \in BOOLEAN}

\* the metrics toggles of configs.droplets.metrics / configs.apps.metrics tried
MetricsConfigs(k) ==
    IF k = "droplet" THEN {{"Memory", "VCpu", "Disk", "Status"}, {"Memory"}, {}}
    ELSE {{"ActiveDeploymentPhase"}, {}}

VARIABLES kind, store_metrics, store, loading, info, recorded, loader, metric_vec, served

storeVars == <<kind, store_metrics, store, loading, info, recorded, loader, metric_vec,
               served>>

MapSeq(s, F(_)) == [i \in 1..Len(s) |-> F(s[i])]

Names(entities) == {entities[i].name : i \in 1..Len(entities)}

\* set that adds to the value the series holds
VecSet_add(vec, labels, v) ==
    [l \in DOMAIN vec \cup {labels} |->
        IF l = labels THEN (IF l \in DOMAIN vec THEN vec[l] + v ELSE v) ELSE vec[l]]

\* a GaugeVec / CounterVec is a function from label tuples to values; the
\* primary-key label (droplet or app) is the first of every vector
VecSet(vec, labels, v) ==
    [l \in DOMAIN vec \cup {labels} |-> IF l = labels THEN v ELSE vec[l]]

\* the reconciler doing nothing
remove_old_droplets_noop(gauge, valid_droplets) == gauge

\* the reconciler removing every series
remove_old_droplets_all(gauge, valid_droplets) ==
    [l \in {} |-> 0]

\* the reconciler removing one stale series per call
remove_old_droplets_one(gauge, valid_droplets) ==
    LET stale == {l \in DOMAIN gauge : l[1] \notin valid_droplets}
    IN  IF stale = {} THEN gauge
        ELSE LET gone == CHOOSE l \in stale : TRUE
             IN  [l \in DOMAIN gauge \ {gone} |-> gauge[l]]

\* utils::remove_old_droplets (remove_old_apps_for_gauge_metric and
\* remove_old_apps_for_counter_metric are the same code on the label "app"):
\* every collected series whose primary-key label is not valid is removed
remove_old_droplets(gauge, valid_droplets) ==
    LET labels_to_delete == {l \in DOMAIN gauge : l[1] \notin valid_droplets}
    IN  [l \in DOMAIN gauge \ labels_to_delete |-> gauge[l]]

\* a refresh that never asks for a second page
fetch_next_never(loaded) == FALSE

\* the links.pages.next test replaced by a test for a non-empty page
fetch_next_is_empty(loaded) == Len(loaded.entries) > 0

\* fetch_next of load_droplets / load_apps
fetch_next(loaded) == loaded.next

NotLoading == [pc |-> "idle", result |-> << >>, page |-> 1, requests |-> << >>,
               responses |-> << >>, outcome |-> "none"]

NoGauges == [memory_gauge |-> << >>, vcpu_gauge |-> << >>, disk_gauge |-> << >>,
             status_gauge |-> << >>, active_gauge |-> << >>]

NotRecorded == [fresh |-> FALSE, count |-> 0, before |-> NoGauges]

\* asked counts the requests of the pass, ok is whether all were answered
\* with Ok so far, before is the loader's vector when the pass began
LoaderIdle == [pc |-> "idle", snapshot |-> << >>, idx |-> 1, names |-> {},
               asked |-> 0, ok |-> TRUE, before |-> << >>]

\* DropletStoreImpl::new / AppStoreImpl::new: an empty store, empty vectors
InitStore ==
    /\ kind \in Kinds
    /\ store_metrics \in MetricsConfigs(kind)
    /\ store = << >>
    /\ loading = NotLoading
    /\ info = NoGauges
    /\ recorded = NotRecorded
    /\ loader = LoaderIdle
    /\ metric_vec = << >>
    /\ served = 0

StoreIdle ==
    /\ kind = "droplet"
    /\ store_metrics = {}
    /\ store = << >>
    /\ loading = NotLoading
    /\ info = NoGauges
    /\ recorded = NotRecorded
    /\ loader = LoaderIdle
    /\ metric_vec = << >>
    /\ served = 0

\* a store written after every page
save_droplets_each_page(snapshot, result, finished) == result

\* save_droplets / save_apps: *self.store.write() = droplets, called once the
\* while loop has ended; until then the store keeps its snapshot
save_droplets(snapshot, result, finished) ==
    IF finished THEN result ELSE snapshot

\* load_droplets / load_apps is called by the inventory loop: its locals
LoadBegin ==
    /\ loading.pc = "idle"
    /\ loading' = [pc |-> "fetching", result |-> << >>, page |-> 1, requests |-> << >>,
                   responses |-> << >>, outcome |-> "none"]
    /\ UNCHANGED <<kind, store_metrics, store, info, recorded, loader, metric_vec, served>>

\* a refresh that stores the pages fetched so far when a page fails
LoadPage_keeps_partial(loaded) ==
    /\ loading.pc = "fetching"
    /\ loaded \in ListResponses(kind)
    /\ served < MaxResponses
    /\ served' = served + 1
    /\ LET req == [per_page |-> per_page, page |-> loading.page]
           entries == IF kind = "droplet" THEN MapSeq(loaded.entries, BasicDropletInfo_from)
                      ELSE MapSeq(loaded.entries, BasicAppInfo_from)
           result == loading.result \o entries
           seen == [loading EXCEPT !.requests = Append(@, req),
                                   !.responses = Append(@, loaded)]
       IN  IF ~loaded.ok
           THEN /\ loading' = [seen EXCEPT !.pc = "idle", !.outcome = "err"]
                /\ store' = loading.result
                /\ UNCHANGED recorded
           ELSE IF fetch_next(loaded)
           THEN /\ loading' = [seen EXCEPT !.result = result, !.page = @ + 1]
                /\ store' = save_droplets(store, result, FALSE)
                /\ UNCHANGED recorded
           ELSE /\ loading' = [seen EXCEPT !.result = result, !.page = @ + 1,
                                           !.pc = "loaded", !.outcome = "ok"]
                /\ store' = save_droplets(store, result, TRUE)
                /\ recorded' = [recorded EXCEPT !.fresh = FALSE]
    /\ UNCHANGED <<kind, store_metrics, info, loader, metric_vec>>

\* one turn of the while loop: the request for `page` and its response.
\* An error leaves through `?`; the last page is followed by save_droplets.
LoadPage(loaded) ==
    /\ loading.pc = "fetching"
    /\ loaded \in ListResponses(kind)
    /\ served < MaxResponses
    /\ served' = served + 1
    /\ LET req == [per_page |-> per_page, page |-> loading.page]
           entries == IF kind = "droplet" THEN MapSeq(loaded.entries, BasicDropletInfo_from)
                      ELSE MapSeq(loaded.entries, BasicAppInfo_from)
           result == loading.result \o entries
           seen == [loading EXCEPT !.requests = Append(@, req),
                                   !.responses = Append(@, loaded)]
       IN  IF ~loaded.ok
           THEN /\ loading' = [seen EXCEPT !.pc = "idle", !.outcome = "err"]
                /\ UNCHANGED <<store, recorded>>
           ELSE IF fetch_next(loaded)
           THEN /\ loading' = [seen EXCEPT !.result = result, !.page = @ + 1]
                /\ store' = save_droplets(store, result, FALSE)
                /\ UNCHANGED recorded
           ELSE /\ loading' = [seen EXCEPT !.result = result, !.page = @ + 1,
                                           !.pc = "loaded", !.outcome = "ok"]
                /\ store' = save_droplets(store, result, TRUE)
                /\ recorded' = [recorded EXCEPT !.fresh = FALSE]
    /\ UNCHANGED <<kind, store_metrics, info, loader, metric_vec>>

RECURSIVE SetAll(_, _, _)
\* with(labels).set(value) for the series i.. of a sequence, in order
SetAll(gauge, series, i) ==
    IF i > Len(series) THEN gauge
    ELSE SetAll(VecSet(gauge, series[i].labels, series[i].value), series, i + 1)

\* DropletStoreImpl::record_droplets_metrics: the gauges afterwards
record_droplets_metrics(g, droplets, enabled) ==
    LET valid == Names(droplets)
        mem(d) == [labels |-> <<d.name>>, value |-> d.memory]
        vcpu(d) == [labels |-> <<d.name>>, value |-> d.vcpus]
        disk(d) == [labels |-> <<d.name>>, value |-> d.disk]
        status(d) == [labels |-> <<d.name, d.status>>, value |-> 1]
        set(gauge, on, Label(_)) ==
            IF on THEN SetAll(gauge, MapSeq(droplets, Label), 1) ELSE gauge
    IN  [g EXCEPT
           !.memory_gauge = remove_old_droplets(set(@, "Memory" \in enabled, mem), valid),
           !.vcpu_gauge = remove_old_droplets(set(@, "VCpu" \in enabled, vcpu), valid),
           !.disk_gauge = remove_old_droplets(set(@, "Disk" \in enabled, disk), valid),
           !.status_gauge = remove_old_droplets(set(@, "Status" \in enabled, status), valid)]

\* AppStoreImpl::record_app_metrics: the gauges afterwards
record_app_metrics(g, apps, enabled) ==
    LET valid == Names(apps)
        phase(a) == [labels |-> <<a.name, a.active_deployment_phase>>, value |-> 1]
    IN  [g EXCEPT
           !.active_gauge =
               remove_old_droplets(IF "ActiveDeploymentPhase" \in enabled
                                   THEN SetAll(@, MapSeq(apps, phase), 1) ELSE @, valid)]

\* the inventory loop calls record_droplets_metrics / record_app_metrics after
\* a load that returned Ok
RecordInfoMetrics ==
    /\ loading.pc = "loaded"
    /\ info' = IF kind = "droplet" THEN record_droplets_metrics(info, store, store_metrics)
               ELSE record_app_metrics(info, store, store_metrics)
    /\ recorded' = [fresh |-> TRUE, count |-> recorded.count + 1, before |-> info]
    /\ loading' = [loading EXCEPT !.pc = "idle"]
    /\ UNCHANGED <<kind, store_metrics, store, loader, metric_vec, served>>

\* --------------------------------------------------------- metric loaders
\* MetricPoint values are strings; those that parse as f64 here are "1", "2"
ParseF64(value) ==
    CASE value = "1" -> [ok |-> TRUE, v |-> 1]
      [] value = "2" -> [ok |-> TRUE, v |-> 2]
      [] OTHER -> [ok |-> FALSE, v |-> 0]

\* series the upstream may return for one entity; mode "" is None
DropletSeriesIdle ==
    [metric |-> [mode |-> "idle"],
     values |-> <<[timestamp |-> 1, value |-> "1"], [timestamp |-> 2, value |-> "2"]>>]

DropletSeriesNoMode ==
    [metric |-> [mode |-> ""],
     values |-> <<[timestamp |-> 2, value |-> "x"], [timestamp |-> 1, value |-> "1"]>>]

AppSeriesWeb ==
    [metric |-> [app_component |-> "web", app_component_instance |-> "web-0"],
     values |-> <<[timestamp |-> 1, value |-> "1"], [timestamp |-> 2, value |-> "2"]>>]

AppSeriesJob ==
    [metric |-> [app_component |-> "job", app_component_instance |-> "job-0"],
     values |-> <<[timestamp |-> 2, value |-> "x"], [timestamp |-> 1, value |-> "1"]>>]

\* what client.get_droplet_cpu / get_app_cpu_percentage may return
MetricResponses(k) ==
    {[ok |-> FALSE, result |-> << >>]}
    \cup {[ok |-> TRUE, result |-> r] :
            r \in IF k = "droplet"
                  THEN {<< >>, <<DropletSeriesIdle>>, <<DropletSeriesNoMode>>}
                  ELSE {<< >>, <<AppSeriesWeb>>, <<AppSeriesJob>>}}

\* the value of the final point of the series, whatever its timestamp
last_point_for_metric_final(metrics) ==
    IF Len(metrics.values) = 0 THEN 0
    ELSE LET parsed == ParseF64(metrics.values[Len(metrics.values)].value)
         IN  IF parsed.ok THEN parsed.v ELSE 0

\* last_point_for_metric / last_point_for_app_metrics: max_by_key(timestamp)
\* returns the last of several maximal points
last_point_for_metric(metrics) ==
    IF Len(metrics.values) = 0 THEN 0
    ELSE LET n == Len(metrics.values)
             best == CHOOSE i \in 1..n :
                        \A j \in 1..n :
                           \/ metrics.values[j].timestamp < metrics.values[i].timestamp
                           \/ (metrics.values[j].timestamp = metrics.values[i].timestamp /\ j <= i)
             parsed == ParseF64(metrics.values[best].value)
         IN  IF parsed.ok THEN parsed.v ELSE 0

\* extract_meta_with_last_values / extract_app_meta_with_last_values
extract_meta_with_last_values(response) ==
    [i \in 1..Len(response.result) |->
        [info |-> response.result[i].metric,
         last_point |-> last_point_for_metric(response.result[i])]]

\* the label values a loader writes for one extracted series of one entity
SeriesLabels(k, entity, meta) ==
    IF k = "droplet"
    THEN <<entity.name, IF meta.mode # "" THEN meta.mode ELSE "unknown">>
    ELSE <<entity.name, meta.app_component, meta.app_component_instance>>

\* load_cpu_metrics / load_cpu_percentage begins: the first list_droplets()
LoaderStart ==
    /\ loader.pc \in {"idle", "done", "failed"}
    /\ loader' = [pc |-> "requesting", snapshot |-> store, idx |-> 1, names |-> {},
                  asked |-> 0, ok |-> TRUE, before |-> metric_vec]
    /\ UNCHANGED <<kind, store_metrics, store, loading, info, recorded, metric_vec, served>>

\* a turn of the loop that logs a failed request and goes on to the next entity
LoaderResponse_skips_failed(res) ==
    /\ loader.pc = "requesting"
    /\ loader.idx <= Len(loader.snapshot)
    /\ res \in MetricResponses(kind)
    /\ served < MaxResponses
    /\ served' = served + 1
    /\ IF ~res.ok
       THEN /\ loader' = [loader EXCEPT !.idx = @ + 1, !.asked = @ + 1, !.ok = FALSE]
            /\ UNCHANGED metric_vec
       ELSE LET entity == loader.snapshot[loader.idx]
                ex == extract_meta_with_last_values(res)
                series == [i \in 1..Len(ex) |->
                             [labels |-> SeriesLabels(kind, entity, ex[i].info),
                              value |-> ex[i].last_point]]
            IN  /\ metric_vec' = SetAll(metric_vec, series, 1)
                /\ loader' = [loader EXCEPT !.idx = @ + 1, !.asked = @ + 1]
    /\ UNCHANGED <<kind, store_metrics, store, loading, info, recorded>>

\* one turn of the for loop: the request for one entity and its response;
\* an error ends the pass through `?`, before any pruning
LoaderResponse(res) ==
    /\ loader.pc = "requesting"
    /\ loader.idx <= Len(loader.snapshot)
    /\ res \in MetricResponses(kind)
    /\ served < MaxResponses
    /\ served' = served + 1
    /\ IF ~res.ok
       THEN /\ loader' = [loader EXCEPT !.pc = "failed", !.asked = @ + 1, !.ok = FALSE]
            /\ UNCHANGED metric_vec
       ELSE LET entity == loader.snapshot[loader.idx]
                ex == extract_meta_with_last_values(res)
                series == [i \in 1..Len(ex) |->
                             [labels |-> SeriesLabels(kind, entity, ex[i].info),
                              value |-> ex[i].last_point]]
            IN  /\ metric_vec' = SetAll(metric_vec, series, 1)
                /\ loader' = [loader EXCEPT !.idx = @ + 1, !.asked = @ + 1]
    /\ UNCHANGED <<kind, store_metrics, store, loading, info, recorded>>

\* after the loop: the second list_droplets() and the set of names
LoaderListNames ==
    /\ loader.pc = "requesting"
    /\ loader.idx > Len(loader.snapshot)
    /\ loader' = [loader EXCEPT !.pc = "pruning", !.names = Names(store)]
    /\ UNCHANGED <<kind, store_metrics, store, loading, info, recorded, metric_vec, served>>

\* a pass that returns early when it listed no entity, without pruning
LoaderPrune_keeps_when_empty ==
    /\ loader.pc = "pruning"
    /\ metric_vec' = IF loader.snapshot = << >> THEN metric_vec
                     ELSE remove_old_droplets(metric_vec, loader.names)
    /\ loader' = [loader EXCEPT !.pc = "done"]
    /\ UNCHANGED <<kind, store_metrics, store, loading, info, recorded, served>>

\* utils::remove_old_droplets on the loader's vector, then Ok(())
LoaderPrune ==
    /\ loader.pc = "pruning"
    /\ metric_vec' = remove_old_droplets(metric_vec, loader.names)
    /\ loader' = [loader EXCEPT !.pc = "done"]
    /\ UNCHANGED <<kind, store_metrics, store, loading, info, recorded, served>>

\* ---------------------------------------------------------------- scheduler
\* The loops of MetricsSchedulerImpl share nothing but the registry; a run
\* explores one of them, chosen by `loop`.  "droplets" stands for the two
\* inventory loops, "cpu" for the metric loops that keep no state between
\* passes (bandwidth, cpu, filesystem, memory, load, app_cpu_percentage,
\* app_memory_percentage), whose code differs only in names.
LoopTypes == {"droplets", "cpu", "app_restart_count", "agent"}

\* Duration::from_secs(10) of first_delay
TenSeconds == 10000

\* Duration::from_secs(1) of the restart count window
OneSecond == 1000

\* the configured intervals tried, in milliseconds
Intervals == {500, 2000, 11000}

\* the job_name each loop passes to record_job_metrics ("" : none)
JobName(l) ==
    CASE l = "droplets" -> "droplet_loading"
      [] l = "cpu" -> "cpu"
      [] l = "app_restart_count" -> "app_restart_count"
      [] l = "agent" -> ""

JobNames == {"droplet_loading", "cpu", "app_restart_count", "agent"}

VARIABLES loop, section, interval, exporter_enabled, jobs_metric, clock, loop_state,
          jobs_counter, passes, restart

schedVars == <<loop, section, interval, exporter_enabled, jobs_metric, clock, loop_state,
               jobs_counter, passes, restart>>

NoWindow == [interval_start |-> 0, interval_end |-> 0, at |-> 0]

NoRestart == [last_interval_end |-> [some |-> FALSE, v |-> 0],
              window |-> NoWindow, previous |-> NoWindow, count |-> 0]

\* MetricsSchedulerImpl::new and the spawn of the loop's task
InitSched ==
    /\ loop \in LoopTypes
    /\ section \in IF loop \in {"cpu", "app_restart_count"}
                  THEN {"none", "disabled", "enabled"} ELSE {"enabled"}
    /\ interval \in Intervals
    /\ exporter_enabled \in BOOLEAN
    /\ jobs_metric \in BOOLEAN
    /\ clock = StartTime
    /\ loop_state = [pc |-> "spawned", wake |-> 0, lag |-> 0]
    /\ jobs_counter = [l \in JobNames \X {"success", "fail"} |-> 0]
    /\ passes = [started |-> 0, success |-> 0, fail |-> 0, ended |-> 0]
    /\ restart = NoRestart

SchedIdle ==
    /\ loop = "droplets"
    /\ section = "enabled"
    /\ interval = 500
    /\ exporter_enabled = FALSE
    /\ jobs_metric = FALSE
    /\ clock = StartTime
    /\ loop_state = [pc |-> "spawned", wake |-> 0, lag |-> 0]
    /\ jobs_counter = [l \in JobNames \X {"success", "fail"} |-> 0]
    /\ passes = [started |-> 0, success |-> 0, fail |-> 0, ended |-> 0]
    /\ restart = NoRestart

\* MetricsSchedulerImpl::are_metrics_enabled
are_metrics_enabled == exporter_enabled /\ jobs_metric

\* record_job_metrics recording successes only (a plausible slip)
record_job_metrics_success_only(counter, job_name, success) ==
    IF ~are_metrics_enabled \/ ~success THEN counter
    ELSE [counter EXCEPT ![<<job_name, "success">>] = @ + 1]

\* MetricsSchedulerImpl::record_job_metrics: the counter afterwards
record_job_metrics(counter, job_name, success) ==
    IF ~are_metrics_enabled THEN counter
    ELSE LET result == IF success THEN "success" ELSE "fail"
         IN  [counter EXCEPT ![<<job_name, result>>] = @ + 1]

\* DateTime::timestamp: the whole seconds of an instant, which is what the
\* client puts into the start and end parameters of a request
timestamp(t) == t \div 1000

\* the start of the next window, remembered without the added second
next_interval_start_same(interval_end) == interval_end

\* last_interval_end = Some(interval_end + Duration::from_secs(1))
next_interval_start(interval_end) == interval_end + OneSecond

\* the task starts and no loop waits before its first pass
LoopEnter_no_first_delay ==
    /\ loop_state.pc = "spawned"
    /\ loop_state' =
         IF loop = "droplets" THEN [pc |-> "sleeping", wake |-> clock, lag |-> 0]
         ELSE IF loop = "agent" /\ ~exporter_enabled
              THEN [pc |-> "returned", wake |-> 0, lag |-> 0]
         ELSE IF loop # "agent" /\ section # "enabled"
              THEN [pc |-> "returned", wake |-> 0, lag |-> 0]
         ELSE [pc |-> "sleeping", wake |-> clock, lag |-> 0]
    /\ UNCHANGED <<loop, section, interval, exporter_enabled, jobs_metric, clock,
                   jobs_counter, passes, restart>>

\* the task starts and runs its loop whatever its section says
LoopEnter_ignores_enabled ==
    /\ loop_state.pc = "spawned"
    /\ loop_state' =
         IF loop = "droplets" THEN [pc |-> "sleeping", wake |-> clock, lag |-> 0]
         ELSE [pc |-> "sleeping", wake |-> clock + Min(TenSeconds, interval), lag |-> 0]
    /\ UNCHANGED <<loop, section, interval, exporter_enabled, jobs_metric, clock,
                   jobs_counter, passes, restart>>

\* the task starts: a loop that is disabled or not configured returns; the
\* inventory loops run their first pass at once; the others sleep first_delay
LoopEnter ==
    /\ loop_state.pc = "spawned"
    /\ loop_state' =
         IF loop = "droplets" THEN [pc |-> "sleeping", wake |-> clock, lag |-> 0]
         ELSE IF loop = "agent" /\ ~exporter_enabled
              THEN [pc |-> "returned", wake |-> 0, lag |-> 0]
         ELSE IF loop # "agent" /\ section # "enabled"
              THEN [pc |-> "returned", wake |-> 0, lag |-> 0]
         ELSE [pc |-> "sleeping", wake |-> clock + Min(TenSeconds, interval), lag |-> 0]
    /\ UNCHANGED <<loop, section, interval, exporter_enabled, jobs_metric, clock,
                   jobs_counter, passes, restart>>

\* tokio::time::sleep is over and the pass begins; the restart count loop
\* computes its window and remembers where the next one starts
PassBegin ==
    /\ loop_state.pc = "sleeping"
    /\ clock >= loop_state.wake
    /\ passes.started < MaxLoopPasses
    /\ loop_state' = [loop_state EXCEPT !.pc = "running", !.lag = 0]
    /\ passes' = [passes EXCEPT !.started = @ + 1]
    /\ IF loop = "app_restart_count"
       THEN LET interval_end == clock - OneSecond
                interval_start == IF restart.last_interval_end.some
                                  THEN restart.last_interval_end.v ELSE interval_end
            IN  restart' = [last_interval_end |->
                                [some |-> TRUE, v |-> next_interval_start(interval_end)],
                            window |-> [interval_start |-> interval_start,
                                        interval_end |-> interval_end, at |-> clock],
                            previous |-> restart.window,
                            count |-> restart.count + 1]
       ELSE UNCHANGED restart
    /\ UNCHANGED <<loop, section, interval, exporter_enabled, jobs_metric, clock,
                   jobs_counter>>

\* a loop that propagates the error of its pass with `?` and returns
PassEnd_returns_on_error(success) ==
    /\ loop_state.pc = "running"
    /\ jobs_counter' = IF loop = "agent" THEN jobs_counter
                       ELSE record_job_metrics(jobs_counter, JobName(loop), success)
    /\ passes' = IF success THEN [passes EXCEPT !.success = @ + 1, !.ended = clock]
                 ELSE [passes EXCEPT !.fail = @ + 1, !.ended = clock]
    /\ loop_state' = IF success THEN [pc |-> "sleeping", wake |-> clock + interval, lag |-> 0]
                     ELSE [pc |-> "returned", wake |-> 0, lag |-> 0]
    /\ UNCHANGED <<loop, section, interval, exporter_enabled, jobs_metric, clock, restart>>

\* a loop that, after a failed pass, takes its window back to query it again
PassEnd_rewinds_on_failure(success) ==
    /\ loop_state.pc = "running"
    /\ jobs_counter' = IF loop = "agent" THEN jobs_counter
                       ELSE record_job_metrics(jobs_counter, JobName(loop), success)
    /\ passes' = IF success THEN [passes EXCEPT !.success = @ + 1, !.ended = clock]
                 ELSE [passes EXCEPT !.fail = @ + 1, !.ended = clock]
    /\ loop_state' = [pc |-> "sleeping", wake |-> clock + interval, lag |-> 0]
    /\ restart' = IF success \/ loop # "app_restart_count" THEN restart
                  ELSE [restart EXCEPT !.last_interval_end.v = restart.window.interval_start]
    /\ UNCHANGED <<loop, section, interval, exporter_enabled, jobs_metric, clock>>

\* the pass returns Ok or Err; the outcome is recorded (not by the agent
\* loop) and the loop goes to sleep for its interval
PassEnd(success) ==
    /\ loop_state.pc = "running"
    /\ jobs_counter' = IF loop = "agent" THEN jobs_counter
                       ELSE record_job_metrics(jobs_counter, JobName(loop), success)
    /\ passes' = IF success THEN [passes EXCEPT !.success = @ + 1, !.ended = clock]
                 ELSE [passes EXCEPT !.fail = @ + 1, !.ended = clock]
    /\ loop_state' = [pc |-> "sleeping", wake |-> clock + interval, lag |-> 0]
    /\ UNCHANGED <<loop, section, interval, exporter_enabled, jobs_metric, clock, restart>>

\* the sleeping task reaches its deadline
SleepElapses ==
    /\ loop_state.pc = "sleeping"
    /\ clock < loop_state.wake
    /\ clock' = loop_state.wake
    /\ UNCHANGED <<loop, section, interval, exporter_enabled, jobs_metric, loop_state,
                   jobs_counter, passes, restart>>

\* time passes while the pass runs, or before the woken task is polled
SchedTick ==
    /\ loop_state.pc \in {"sleeping", "running"}
    /\ clock >= loop_state.wake
    /\ loop_state.lag < MaxLag
    /\ clock' = clock + TickMillis
    /\ loop_state' = [loop_state EXCEPT !.lag = @ + 1]
    /\ UNCHANGED <<loop, section, interval, exporter_enabled, jobs_metric,
                   jobs_counter, passes, restart>>

\* ------------------------------------------------------------------ client
\* DigitalOceanClientImpl: one call is acquire_key, send, record_client_metrics,
\* the status check and the decoding of the body.  A run explores the passes
\* of one loop that issues such calls: the cpu loop (get_droplet_cpu for each
\* droplet of the snapshot) or the droplets loop (list_droplets page by page).
ClientLoops == {"cpu", "droplets"}

\* the request label record_client_metrics is given
RequestLabel(l) == IF l = "cpu" THEN "cpu" ELSE "list_droplets"

\* the body of a response that decodes into the expected type
JsonBody == "{json}"

\* what happens to one call: acquire_key returns a token or an error ("" );
\* send returns a response or fails; the body can be read or the connection
\* breaks while it is read.  A 204 response has no body.
Exchanges ==
    {[bearer |-> "", sent |-> FALSE, status |-> "", body |-> "", readable |-> FALSE]}
    \cup {[bearer |-> "d", sent |-> FALSE, status |-> "", body |-> "", readable |-> FALSE]}
    \cup {[bearer |-> "d", sent |-> TRUE, status |-> st, body |-> b, readable |-> r] :
            st \in {"200", "401"}, b \in {JsonBody, "", "oops"}, r \in BOOLEAN}
    \cup {[bearer |-> "d", sent |-> TRUE, status |-> "204", body |-> "", readable |-> TRUE],
          [bearer |-> "d", sent |-> TRUE, status |-> "201", body |-> JsonBody, readable |-> TRUE],
          [bearer |-> "d", sent |-> TRUE, status |-> "500", body |-> "oops", readable |-> TRUE]}

\* response.json::<T>(): serde_json on the bytes of the body; an empty body
\* is no JSON document
DecodeJson(x) ==
    IF ~x.readable THEN [ok |-> FALSE, error |-> <<"error decoding response body">>]
    ELSE IF x.body = JsonBody THEN [ok |-> TRUE, error |-> << >>]
    ELSE [ok |-> FALSE, error |-> <<"error decoding response body">>]

\* is_enabled of DigitalOceanClientMetrics is exporter_metrics.enabled and
\* Requests among exporter_metrics.metrics
VARIABLES requests_metric, requests_counter, client_loop, client_pass, exchange, http_sent

clientVars == <<requests_metric, requests_counter, client_loop, client_pass, exchange,
                http_sent>>

\* record_client_metrics counting nothing for a status that is an error
record_client_metrics_ok_only(counter, enabled, request, response_code) ==
    IF ~enabled \/ response_code \notin {"200", "204"} THEN counter
    ELSE VecSet(counter, <<request, response_code>>,
                IF <<request, response_code>> \in DOMAIN counter
                THEN counter[<<request, response_code>>] + 1 ELSE 1)

\* DigitalOceanClientMetrics::record_client_metrics: the counter afterwards
record_client_metrics(counter, enabled, request, response_code) ==
    IF ~enabled THEN counter
    ELSE VecSet(counter, <<request, response_code>>,
                IF <<request, response_code>> \in DOMAIN counter
                THEN counter[<<request, response_code>>] + 1 ELSE 1)

\* the status check accepting every 2xx status
status_accepted_2xx(status) == status \in {"200", "201", "204"}

\* response.status() == OK || response.status() == NO_CONTENT
status_accepted(status) == status \in {"200", "204"}

\* a 204 answered with the empty result set, without decoding
base_request_result_empty_on_204(x) ==
    IF x.bearer = "" THEN [ok |-> FALSE, error |-> <<"acquire_key">>]
    ELSE IF ~x.sent THEN [ok |-> FALSE, error |-> <<"send">>]
    ELSE IF ~status_accepted(x.status)
    THEN IF ~x.readable THEN [ok |-> FALSE, error |-> <<"error decoding response body">>]
         ELSE [ok |-> FALSE,
               error |-> <<"Request failed with status code: ", x.status, ", body: ", x.body>>]
    ELSE IF x.status = "204" THEN [ok |-> TRUE, error |-> << >>]
    ELSE DecodeJson(x)

\* what base_droplet_metrics_request / list_droplets return for an exchange
base_request_result(x) ==
    IF x.bearer = "" THEN [ok |-> FALSE, error |-> <<"acquire_key">>]
    ELSE IF ~x.sent THEN [ok |-> FALSE, error |-> <<"send">>]
    ELSE IF ~status_accepted(x.status)
    THEN IF ~x.readable THEN [ok |-> FALSE, error |-> <<"error decoding response body">>]
         ELSE [ok |-> FALSE,
               error |-> <<"Request failed with status code: ", x.status, ", body: ", x.body>>]
    ELSE DecodeJson(x)

NoPass == [pc |-> "idle", n |-> 0, done |-> 0, failed |-> FALSE, count |-> 0,
           responses |-> 0, rejected |-> FALSE]

NoExchange == [x |-> [bearer |-> "", sent |-> FALSE, status |-> "", body |-> "",
                      readable |-> FALSE],
               result |-> [ok |-> FALSE, error |-> << >>], made |-> FALSE,
               counter_before |-> << >>]

\* DigitalOceanClientImpl::new; the loop's task is spawned
InitClient ==
    /\ requests_metric \in BOOLEAN
    /\ requests_counter = << >>
    /\ client_loop \in ClientLoops
    /\ client_pass = NoPass
    /\ exchange = NoExchange
    /\ http_sent = << >>

ClientIdle ==
    /\ requests_metric = FALSE
    /\ requests_counter = << >>
    /\ client_loop = "cpu"
    /\ client_pass = NoPass
    /\ exchange = NoExchange
    /\ http_sent = << >>

\* a pass begins with n entities in the snapshot (or n pages to come)
ClientPassBegin(n) ==
    /\ client_pass.pc = "idle"
    /\ client_pass.count < MaxClientPasses
    /\ client_pass' = [pc |-> "running", n |-> n, done |-> 0, failed |-> FALSE,
                       count |-> client_pass.count + 1, responses |-> 0, rejected |-> FALSE]
    /\ http_sent' = << >>
    /\ UNCHANGED <<requests_metric, requests_counter, client_loop, exchange>>

\* one call of the client within the pass, and what the pass does with what
\* it returns: go on with the next entity or leave through `?`
ClientCall(x) ==
    /\ client_pass.pc = "running"
    /\ ~client_pass.failed
    /\ client_pass.done < client_pass.n
    /\ LET result == base_request_result(x)
           received == x.bearer # "" /\ x.sent
       IN  /\ exchange' = [x |-> x, result |-> result, made |-> TRUE,
                           counter_before |-> requests_counter]
           /\ http_sent' = IF x.bearer # "" THEN Append(http_sent, x.bearer) ELSE http_sent
           /\ requests_counter' =
                 IF received
                 THEN record_client_metrics(requests_counter,
                                            exporter_enabled /\ requests_metric,
                                            RequestLabel(client_loop), x.status)
                 ELSE requests_counter
           /\ client_pass' =
                 [client_pass EXCEPT
                    !.done = IF result.ok THEN @ + 1 ELSE @,
                    !.failed = ~result.ok,
                    !.responses = IF received THEN @ + 1 ELSE @,
                    !.rejected = @ \/ (received /\ x.status \notin {"200", "201", "204"})]
    /\ UNCHANGED <<requests_metric, client_loop>>

\* the pass returns to the loop, which records its outcome
ClientPassEnd ==
    /\ client_pass.pc = "running"
    /\ client_pass.failed \/ client_pass.done = client_pass.n
    /\ client_pass' = [client_pass EXCEPT !.pc = "idle"]
    /\ jobs_counter' = record_job_metrics(jobs_counter, JobName(client_loop),
                                          ~client_pass.failed)
    /\ passes' = IF client_pass.failed THEN [passes EXCEPT !.fail = @ + 1]
                 ELSE [passes EXCEPT !.success = @ + 1]
    /\ UNCHANGED <<requests_metric, requests_counter, client_loop, exchange, http_sent>>

\* ------------------------------------------- the client with its key manager
\* every request type asking for the default pool
KeyTypeFrom_default(l) == "Default"

\* From<RequestType> for KeyType, for the request type of the loop's calls:
\* RequestType::DropletCpu and RequestType::Droplets
KeyTypeFrom(l) == IF l = "cpu" THEN "DropletCpu" ELSE "Droplets"

\* what may become of a request once it carries a token
Answers ==
    {x \in Exchanges :
        /\ x.bearer # ""
        /\ x.sent => /\ x.readable
                     /\ <<x.status, x.body>> \in {<<"200", JsonBody>>, <<"401", "oops">>}}

\* one call of the client with the key manager behind it: acquire_key for the
\* key type of the request, `?`, then send with the bearer, then
\* record_client_metrics once a response is there
ClientRequest(dt, ans) ==
    /\ AcquireKey(KeyTypeFrom(client_loop), dt)
    /\ IF last_call'.ok
       THEN LET x == [ans EXCEPT !.bearer = last_call'.key]
            IN  /\ http_sent' = Append(http_sent, x.bearer)
                /\ requests_counter' =
                      IF x.sent
                      THEN record_client_metrics(requests_counter,
                                                 exporter_enabled /\ requests_metric,
                                                 RequestLabel(client_loop), x.status)
                      ELSE requests_counter
                /\ exchange' = [x |-> x, result |-> base_request_result(x), made |-> TRUE,
                                counter_before |-> requests_counter]
       ELSE /\ exchange' = [x |-> NoExchange.x, result |-> base_request_result(NoExchange.x),
                            made |-> TRUE, counter_before |-> requests_counter]
            /\ UNCHANGED <<http_sent, requests_counter>>
    /\ UNCHANGED <<requests_metric, client_loop, client_pass>>

\* ------------------------------------------------------------ reconciler
\* values of the primary-key label ("droplet" or "app") and of a second label
PrimaryKeys == {"droplet-A", "droplet-B", "droplet-C"}
OtherLabels == {"x", "y"}

\* gauge_vec: the series of one GaugeVec or CounterVec, label values |-> value,
\* the primary-key label first; vec_arity: the number of its labels;
\* reconcile_op: the last call of the reconciler (its valid set, the vector
\* it was given, and how many calls with that set were made in a row)
VARIABLES gauge_vec, vec_arity, reconcile_op

recVars == <<gauge_vec, vec_arity, reconcile_op>>

\* the label tuples a vector of that arity can hold
LabelValues(arity) ==
    IF arity = 1 THEN {<<p>> : p \in PrimaryKeys}
    ELSE {<<p, o>> : p \in PrimaryKeys, o \in OtherLabels}

NoReconcile == [made |-> FALSE, valid |-> {}, before |-> << >>, calls |-> 0]

InitRec ==
    /\ gauge_vec = << >>
    /\ vec_arity \in 1..2
    /\ reconcile_op = NoReconcile

RecIdle ==
    /\ gauge_vec = << >>
    /\ vec_arity = 1
    /\ reconcile_op = NoReconcile

\* with_label_values(labels).set(v)
SeriesSet(labels, v) ==
    /\ gauge_vec' = VecSet(gauge_vec, labels, v)
    /\ reconcile_op' = NoReconcile
    /\ UNCHANGED vec_arity

\* remove_old_droplets(&gauge, &valid)
Reconcile(valid) ==
    /\ gauge_vec' = remove_old_droplets(gauge_vec, valid)
    /\ reconcile_op' =
          [made |-> TRUE, valid |-> valid, before |-> gauge_vec,
           calls |-> IF reconcile_op.made /\ reconcile_op.valid = valid
                     THEN Min(reconcile_op.calls + 1, 2) ELSE 1]
    /\ UNCHANGED vec_arity

\* ------------------------------------------------------------ last value
\* the strings a MetricPoint value may hold: two that parse and one that does not
PointValues == {"1", "2", "x"}

\* the values of one upstream series: up to MaxPoints points, in any order
RECURSIVE PointSeqs(_)
PointSeqs(n) ==
    IF n = 0 THEN {<< >>}
    ELSE PointSeqs(n - 1) \cup
         {Append(ps, [timestamp |-> ts, value |-> v]) :
             ps \in {q \in PointSeqs(n - 1) : Len(q) = n - 1},
             ts \in 1..MaxStamp, v \in PointValues}

\* points: the values of the series handed to the loader; sample: what the
\* loader wrote for it (written: whether it has)
VARIABLES points, sample

lvVars == <<points, sample>>

NoSample == [written |-> FALSE, value |-> 0]

InitLv ==
    /\ points \in PointSeqs(MaxPoints)
    /\ sample = NoSample

LvIdle ==
    /\ points = << >>
    /\ sample = NoSample

\* for (meta, value) in extract_meta_with_last_values(res) { ...set(value) }
WriteLastValue ==
    /\ ~sample.written
    /\ sample' = [written |-> TRUE, value |-> last_point_for_metric([values |-> points])]
    /\ UNCHANGED points

\* the next pass receives another series
NextSeries ==
    /\ sample.written
    /\ points' \in PointSeqs(MaxPoints)
    /\ sample' = NoSample

\* ------------------------------------------------------ concurrent callers
\* The loops run as tasks of a multi-thread runtime and share one
\* KeyManagerImpl, whose state is behind a parking_lot Mutex.
\* callers[c].pc: "idle"; "waiting" (in KeyManagerImpl::acquire_key, at
\* state.lock()); "inside" (holds the guard, key_result computed); "done".
\* mutex: the caller holding the guard, 0 when it is free.
VARIABLES callers, mutex

concVars == <<callers, mutex>>

Callers == 1..NumCallers

NoCaller == [pc |-> "idle", key_type |-> "", t |-> 0, seen |-> << >>, replaced |-> << >>,
             written |-> << >>, ok |-> FALSE, key |-> "", serial |-> << >>,
             permit |-> FALSE, contended |-> FALSE]

InitConc ==
    /\ callers = [c \in Callers |-> NoCaller]
    /\ mutex = 0

ConcIdle ==
    /\ callers = << >>
    /\ mutex = 0

\* a mutex that lets everybody in
mutex_free_always(m) == TRUE

\* Mutex::lock returns when no other guard is alive
mutex_free(m) == m = 0

\* how many times the limiter of the returned token is asked to acquire: the
\* fallback from an exhausted pool asks twice
AcquireCalls(ks, key_type, fellback) ==
    IF key_type \in DOMAIN ks /\ fellback THEN 2 ELSE 1

RECURSIVE AcquireTimes(_, _, _)
\* settings.acquire(current_time), n times, its results dropped
AcquireTimes(ml, t, n) ==
    IF n = 0 THEN ml ELSE AcquireTimes(MultiLimits_acquire(ml, t).ml, t, n - 1)

\* a task calls key_manager.acquire_key(key_type)
CallAcquire(c, key_type) ==
    /\ callers[c].pc \in {"idle", "done"}
    /\ calls < MaxCalls
    /\ calls' = calls + 1
    /\ callers' = [callers EXCEPT ![c] = [NoCaller EXCEPT !.pc = "waiting",
                                                          !.key_type = key_type]]
    /\ UNCHANGED <<keys, limits, now, limits_metrics_enabled, key_error_counter,
                   limits_gauge, keys_status_gauge, last_call, mutex>>

\* self.state.lock(), Utc::now() and the computation of key_result, which
\* reads the limiters
LockAndSelect(c) ==
    /\ callers[c].pc = "waiting"
    /\ mutex_free(mutex)
    /\ mutex' = c
    /\ LET st == [limits |-> limits, counter |-> key_error_counter,
                  gauges |-> [limits_gauge |-> limits_gauge,
                              keys_status_gauge |-> keys_status_gauge],
                  acquired |-> << >>, fellback |-> FALSE]
           r == acquire_key(keys, limits_metrics_enabled, st, callers[c].key_type,
                            <<now, now>>)
       IN  callers' = [callers EXCEPT ![c] =
              [@ EXCEPT !.pc = "inside", !.t = now, !.seen = limits, !.ok = r.ok,
                        !.key = r.key, !.serial = r,
                        !.contended = \E o \in Callers \ {c} :
                                         callers[o].pc \in {"waiting", "inside"}]]
    /\ UNCHANGED <<keys, limits, now, limits_metrics_enabled, key_error_counter,
                   limits_gauge, keys_status_gauge, last_call, calls>>

\* record_fail or settings.acquire and record_metrics on the state as it is
\* now, then the guard is dropped and the call returns
CommitAndUnlock(c) ==
    /\ callers[c].pc = "inside"
    /\ LET me == callers[c]
           n == AcquireCalls(keys, me.key_type, me.serial.fellback)
           lim2 == IF me.ok /\ me.key \in DOMAIN limits
                   THEN [limits EXCEPT ![me.key] = AcquireTimes(@, me.t, n)]
                   ELSE limits
       IN  /\ limits' = lim2
           /\ key_error_counter' =
                 IF me.ok THEN key_error_counter
                 ELSE record_fail(keys, limits_metrics_enabled, key_error_counter,
                                  me.key_type)
           /\ limits_gauge' =
                 IF me.ok
                 THEN record_metrics(keys, limits_metrics_enabled, lim2,
                                     [limits_gauge |-> limits_gauge,
                                      keys_status_gauge |-> keys_status_gauge],
                                     me.t).limits_gauge
                 ELSE limits_gauge
           /\ keys_status_gauge' =
                 IF me.ok
                 THEN record_metrics(keys, limits_metrics_enabled, lim2,
                                     [limits_gauge |-> limits_gauge,
                                      keys_status_gauge |-> keys_status_gauge],
                                     me.t).keys_status_gauge
                 ELSE keys_status_gauge
           /\ callers' = [callers EXCEPT ![c] =
                 [@ EXCEPT !.pc = "done", !.replaced = limits, !.written = lim2,
                           !.permit = me.ok /\ me.key \in DOMAIN limits
                                      /\ MultiLimits_acquire(limits[me.key], me.t).ok]]
    /\ mutex' = IF mutex = c THEN 0 ELSE mutex
    /\ UNCHANGED <<keys, now, limits_metrics_enabled, last_call, calls>>

\* ------------------------------------------------------ loops side by side
\* Two of the tasks main spawns, each running its loop (sleep, pass, record,
\* sleep ...) with the pass of load_cpu_metrics: one awaited request for each
\* entity of the snapshot.  tasks[t] is the position of task t: where it is,
\* the deadline of its sleep, the size n of the snapshot of its pass, the
\* entity idx it is at, the requests it has in flight, the entities it has
\* asked for in this pass (in order), the passes begun and when the last ended.
SeqLoops == {"cpu", "filesystem"}

VARIABLES tasks, ticks

seqVars == <<tasks, ticks>>

NoTask == [pc |-> "spawned", interval |-> 1, wake |-> 0, n |-> 0, idx |-> 1,
           in_flight |-> 0, order |-> << >>, passes |-> 0, ended |-> 0]

InitSeq ==
    /\ tasks \in [SeqLoops -> {[NoTask EXCEPT !.interval = i] : i \in 1..MaxSleep}]
    /\ ticks = 0

SeqIdle ==
    /\ tasks = << >>
    /\ ticks = 0

\* the task enters its loop: the first sleep is first_delay
TaskEnter(t) ==
    /\ tasks[t].pc = "spawned"
    /\ tasks' = [tasks EXCEPT ![t].pc = "sleeping",
                              ![t].wake = ticks + Min(TenSeconds, tasks[t].interval)]
    /\ UNCHANGED ticks

\* the sleep is over; the pass begins and lists the n entities of the snapshot
TaskPassBegin(t, n) ==
    /\ tasks[t].pc = "sleeping"
    /\ ticks >= tasks[t].wake
    /\ tasks[t].passes < MaxLoopPasses
    /\ tasks' = [tasks EXCEPT ![t].pc = "requesting", ![t].n = n, ![t].idx = 1,
                              ![t].order = << >>, ![t].passes = @ + 1]
    /\ UNCHANGED ticks

\* a pass that starts the request of every entity before awaiting any
TaskRequest_all_at_once(t) ==
    /\ tasks[t].pc \in {"requesting", "awaiting"}
    /\ Len(tasks[t].order) < tasks[t].n
    /\ tasks' = [tasks EXCEPT ![t].pc = "awaiting", ![t].in_flight = @ + 1,
                              ![t].order = Append(@, Len(@) + 1)]
    /\ UNCHANGED ticks

\* client.get_droplet_cpu(droplet.id, ...) is called for the entity at idx
TaskRequest(t) ==
    /\ tasks[t].pc = "requesting"
    /\ tasks[t].idx <= tasks[t].n
    /\ tasks' = [tasks EXCEPT ![t].pc = "awaiting", ![t].in_flight = @ + 1,
                              ![t].order = Append(@, tasks[t].idx)]
    /\ UNCHANGED ticks

\* .await? returns: Ok goes on with the next entity, Err leaves the pass and
\* the loop records the failure and sleeps its interval
TaskResponse(t, ok) ==
    /\ tasks[t].pc = "awaiting"
    /\ tasks' = IF ok
                THEN [tasks EXCEPT ![t].pc = "requesting", ![t].in_flight = @ - 1,
                                   ![t].idx = @ + 1]
                ELSE [tasks EXCEPT ![t].pc = "sleeping", ![t].in_flight = @ - 1,
                                   ![t].wake = ticks + tasks[t].interval,
                                   ![t].ended = ticks]
    /\ UNCHANGED ticks

\* the for loop is through: the pass returns Ok and the loop sleeps its interval
TaskPassEnd(t) ==
    /\ tasks[t].pc = "requesting"
    /\ tasks[t].idx > tasks[t].n
    /\ tasks' = [tasks EXCEPT ![t].pc = "sleeping",
                              ![t].wake = ticks + tasks[t].interval,
                              ![t].ended = ticks]
    /\ UNCHANGED ticks

\* time passes
SeqTick ==
    /\ ticks < MaxSeqTime
    /\ ticks' = ticks + 1
    /\ UNCHANGED tasks

\* ---------------------------------------------------------- scrape endpoint
\* endpoint.auth of the configuration: absent, or enabled or not with a login
\* and a password
AuthConfigs ==
    {[configured |-> FALSE, enabled |-> FALSE, login |-> "", password |-> ""]}
    \cup {[configured |-> TRUE, enabled |-> e, login |-> l, password |-> p] :
             e \in BOOLEAN, l \in {"login", "other"}, p \in {"password", "guess"}}

\* the Authorization header of a scrape: none, one that is not Basic, or
\* Basic with a username and a password
ScrapeRequests ==
    {[header |-> h, username |-> "", password |-> ""] : h \in {"none", "bearer"}}
    \cup {[header |-> "basic", username |-> u, password |-> p] :
             u \in {"login", "other", ""}, p \in {"password", "guess", ""}}

VARIABLES auth, scrape

authVars == <<auth, scrape>>

NoScrape == [made |-> FALSE, request |-> [header |-> "none", username |-> "", password |-> ""],
             status |-> "", count |-> 0]

InitAuth ==
    /\ auth \in AuthConfigs
    /\ scrape = NoScrape

AuthIdle ==
    /\ auth = [configured |-> FALSE, enabled |-> FALSE, login |-> "", password |-> ""]
    /\ scrape = NoScrape

\* the check rejecting a request when either part of the credentials is wrong
credentials_rejected_either(creds, request) ==
    request.username # creds.login \/ request.password # creds.password

\* auth.username() != creds.login && auth.password() != creds.password
credentials_rejected(creds, request) ==
    request.username # creds.login /\ request.password # creds.password

\* prometheus_endpoint: the status of the response ("200": the metrics)
prometheus_endpoint(creds, request) ==
    IF creds.configured /\ creds.enabled
    THEN IF request.header = "basic"
         THEN IF credentials_rejected(creds, request) THEN "401" ELSE "200"
         ELSE "401"
    ELSE "200"

\* one scrape of /metrics
Scrape(request) ==
    /\ scrape.count < MaxScrapes
    /\ scrape' = [made |-> TRUE, request |-> request,
                  status |-> prometheus_endpoint(auth, request),
                  count |-> scrape.count + 1]
    /\ UNCHANGED auth

\* ------------------------------------------------------------ specifications
vars == <<kmVars, limVars, storeVars, schedVars, clientVars, recVars, lvVars, concVars, seqVars, authVars>>

Init == InitKeys /\ LimiterIdle /\ StoreIdle /\ SchedIdle /\ ClientIdle /\ RecIdle /\ LvIdle /\ ConcIdle /\ SeqIdle /\ AuthIdle

Next ==
    \/ \E kt \in KeyTypes, dt \in 0..1 :
          AcquireKey(kt, dt) /\ UNCHANGED <<limVars, storeVars, schedVars, clientVars, recVars, lvVars, concVars, seqVars, authVars>>
    \/ Tick /\ UNCHANGED <<limVars, storeVars, schedVars, clientVars, recVars, lvVars, concVars, seqVars, authVars>>

Spec == Init /\ [][Next]_vars

InitLim == KeysIdle /\ InitLimiter /\ StoreIdle /\ SchedIdle /\ ClientIdle /\ RecIdle /\ LvIdle /\ ConcIdle /\ SeqIdle /\ AuthIdle

NextLim ==
    \/ \E t \in 0..MaxLimTime : LimAcquire(t) /\ UNCHANGED <<kmVars, storeVars, schedVars, clientVars, recVars, lvVars, concVars, seqVars, authVars>>
    \/ \E t \in 0..MaxLimTime : LimCanAcquire(t) /\ UNCHANGED <<kmVars, storeVars, schedVars, clientVars, recVars, lvVars, concVars, seqVars, authVars>>

SpecLimiter == InitLim /\ [][NextLim]_vars

NextClock ==
    \E dt \in 0..MaxLimTime : ClockAcquire(dt) /\ UNCHANGED <<kmVars, storeVars, schedVars, clientVars, recVars, lvVars, concVars, seqVars, authVars>>

SpecClock == InitLim /\ [][NextClock]_vars

InitSt == KeysIdle /\ LimiterIdle /\ InitStore /\ SchedIdle /\ ClientIdle /\ RecIdle /\ LvIdle /\ ConcIdle /\ SeqIdle /\ AuthIdle

NextSt ==
    \/ LoadBegin /\ UNCHANGED <<kmVars, limVars, schedVars, clientVars, recVars, lvVars, concVars, seqVars, authVars>>
    \/ \E loaded \in ListResponses(kind) :
          LoadPage(loaded) /\ UNCHANGED <<kmVars, limVars, schedVars, clientVars, recVars, lvVars, concVars, seqVars, authVars>>
    \/ RecordInfoMetrics /\ UNCHANGED <<kmVars, limVars, schedVars, clientVars, recVars, lvVars, concVars, seqVars, authVars>>
    \/ LoaderStart /\ UNCHANGED <<kmVars, limVars, schedVars, clientVars, recVars, lvVars, concVars, seqVars, authVars>>
    \/ \E res \in MetricResponses(kind) :
          LoaderResponse(res) /\ UNCHANGED <<kmVars, limVars, schedVars, clientVars, recVars, lvVars, concVars, seqVars, authVars>>
    \/ LoaderListNames /\ UNCHANGED <<kmVars, limVars, schedVars, clientVars, recVars, lvVars, concVars, seqVars, authVars>>
    \/ LoaderPrune /\ UNCHANGED <<kmVars, limVars, schedVars, clientVars, recVars, lvVars, concVars, seqVars, authVars>>

SpecStore == InitSt /\ [][NextSt]_vars

InitSch == KeysIdle /\ LimiterIdle /\ StoreIdle /\ InitSched /\ ClientIdle /\ RecIdle /\ LvIdle /\ ConcIdle /\ SeqIdle /\ AuthIdle

NextSch ==
    \/ LoopEnter /\ UNCHANGED <<kmVars, limVars, storeVars, clientVars, recVars, lvVars, concVars, seqVars, authVars>>
    \/ PassBegin /\ UNCHANGED <<kmVars, limVars, storeVars, clientVars, recVars, lvVars, concVars, seqVars, authVars>>
    \/ \E success \in BOOLEAN : PassEnd(success) /\ UNCHANGED <<kmVars, limVars, storeVars, clientVars, recVars, lvVars, concVars, seqVars, authVars>>
    \/ SleepElapses /\ UNCHANGED <<kmVars, limVars, storeVars, clientVars, recVars, lvVars, concVars, seqVars, authVars>>
    \/ SchedTick /\ UNCHANGED <<kmVars, limVars, storeVars, clientVars, recVars, lvVars, concVars, seqVars, authVars>>

SpecSched == InitSch /\ [][NextSch]_vars

\* the timer of tokio::time::sleep fires, and the runtime polls the woken task
NextSchWake ==
    SleepElapses /\ UNCHANGED <<kmVars, limVars, storeVars, clientVars, recVars, lvVars, concVars, seqVars, authVars>>

NextSchPoll ==
    PassBegin /\ UNCHANGED <<kmVars, limVars, storeVars, clientVars, recVars, lvVars, concVars, seqVars, authVars>>

SpecSchedFair == SpecSched /\ WF_vars(NextSchWake) /\ WF_vars(NextSchPoll)

\* the loop of the client run is enabled; the self-metric toggles vary
InitCl ==
    /\ KeysIdle /\ LimiterIdle /\ StoreIdle /\ InitClient /\ RecIdle /\ LvIdle /\ ConcIdle /\ SeqIdle /\ AuthIdle
    /\ loop = client_loop
    /\ section = "enabled"
    /\ interval = 500
    /\ exporter_enabled \in BOOLEAN
    /\ jobs_metric \in BOOLEAN
    /\ clock = StartTime
    /\ loop_state = [pc |-> "spawned", wake |-> 0, lag |-> 0]
    /\ jobs_counter = [l \in JobNames \X {"success", "fail"} |-> 0]
    /\ passes = [started |-> 0, success |-> 0, fail |-> 0, ended |-> 0]
    /\ restart = NoRestart

NextCl ==
    \/ \E n \in 0..MaxEntities :
          ClientPassBegin(n)
          /\ UNCHANGED <<kmVars, limVars, storeVars, recVars, lvVars, loop, section, interval,
                         exporter_enabled, jobs_metric, clock, loop_state, jobs_counter,
                         passes, restart, concVars, seqVars, authVars>>
    \/ \E x \in Exchanges :
          ClientCall(x)
          /\ UNCHANGED <<kmVars, limVars, storeVars, recVars, lvVars, loop, section, interval,
                         exporter_enabled, jobs_metric, clock, loop_state, jobs_counter,
                         passes, restart, concVars, seqVars, authVars>>
    \/ ClientPassEnd
          /\ UNCHANGED <<kmVars, limVars, storeVars, recVars, lvVars, loop, section, interval,
                         exporter_enabled, jobs_metric, clock, loop_state, restart, concVars, seqVars, authVars>>

SpecClient == InitCl /\ [][NextCl]_vars

\* the client of one loop in front of the key manager; the exporter's
\* self-metrics are enabled and the requests toggle varies
InitCall ==
    /\ InitKeys /\ LimiterIdle /\ StoreIdle /\ InitClient /\ RecIdle /\ LvIdle /\ ConcIdle /\ SeqIdle /\ AuthIdle
    /\ loop = client_loop
    /\ section = "enabled"
    /\ interval = 500
    /\ exporter_enabled = TRUE
    /\ jobs_metric = FALSE
    /\ clock = StartTime
    /\ loop_state = [pc |-> "spawned", wake |-> 0, lag |-> 0]
    /\ jobs_counter = [l \in JobNames \X {"success", "fail"} |-> 0]
    /\ passes = [started |-> 0, success |-> 0, fail |-> 0, ended |-> 0]
    /\ restart = NoRestart

NextCall ==
    \/ \E dt \in 0..1, ans \in Answers :
          ClientRequest(dt, ans)
          /\ UNCHANGED <<limVars, storeVars, schedVars, recVars, lvVars, concVars, seqVars, authVars>>
    \/ Tick /\ UNCHANGED <<limVars, storeVars, schedVars, clientVars, recVars, lvVars, concVars, seqVars, authVars>>

SpecCall == InitCall /\ [][NextCall]_vars

InitRc == KeysIdle /\ LimiterIdle /\ StoreIdle /\ SchedIdle /\ ClientIdle /\ InitRec /\ LvIdle /\ ConcIdle /\ SeqIdle /\ AuthIdle

NextRc ==
    \/ \E labels \in LabelValues(vec_arity), v \in 1..MaxValue :
          SeriesSet(labels, v)
          /\ UNCHANGED <<kmVars, limVars, storeVars, schedVars, clientVars, lvVars, concVars, seqVars, authVars>>
    \/ \E valid \in SUBSET PrimaryKeys :
          Reconcile(valid)
          /\ UNCHANGED <<kmVars, limVars, storeVars, schedVars, clientVars, lvVars, concVars, seqVars, authVars>>

SpecReconcile == InitRc /\ [][NextRc]_vars

InitLast == KeysIdle /\ LimiterIdle /\ StoreIdle /\ SchedIdle /\ ClientIdle /\ RecIdle /\ InitLv /\ ConcIdle /\ SeqIdle /\ AuthIdle

NextLast ==
    \/ WriteLastValue
          /\ UNCHANGED <<kmVars, limVars, storeVars, schedVars, clientVars, recVars, concVars, seqVars, authVars>>
    \/ NextSeries
          /\ UNCHANGED <<kmVars, limVars, storeVars, schedVars, clientVars, recVars, concVars, seqVars, authVars>>

SpecLastValue == InitLast /\ [][NextLast]_vars

\* two of the configurations: a pool of one token beside the default pool, and
\* an empty pool beside a pool of two
InitCc == InitKeys /\ keys \in {KeyConfigs23[1], KeyConfigs23[2]} /\ LimiterIdle /\ StoreIdle /\ SchedIdle /\ ClientIdle /\ RecIdle /\ LvIdle /\ InitConc /\ SeqIdle /\ AuthIdle

NextCc ==
    \/ \E c \in Callers, kt \in KeyTypes :
          CallAcquire(c, kt)
          /\ UNCHANGED <<limVars, storeVars, schedVars, clientVars, recVars, lvVars, seqVars, authVars>>
    \/ \E c \in Callers :
          LockAndSelect(c)
          /\ UNCHANGED <<limVars, storeVars, schedVars, clientVars, recVars, lvVars, seqVars, authVars>>
    \/ \E c \in Callers :
          CommitAndUnlock(c)
          /\ UNCHANGED <<limVars, storeVars, schedVars, clientVars, recVars, lvVars, seqVars, authVars>>

SpecConcurrent == InitCc /\ [][NextCc]_vars

InitSq == KeysIdle /\ LimiterIdle /\ StoreIdle /\ SchedIdle /\ ClientIdle /\ RecIdle /\ LvIdle /\ ConcIdle /\ InitSeq /\ AuthIdle

NextSq ==
    \/ \E t \in SeqLoops : TaskEnter(t) /\ UNCHANGED <<kmVars, limVars, storeVars, schedVars, clientVars, recVars, lvVars, concVars, authVars>>
    \/ \E t \in SeqLoops, n \in 0..MaxEntities :
          TaskPassBegin(t, n) /\ UNCHANGED <<kmVars, limVars, storeVars, schedVars, clientVars, recVars, lvVars, concVars, authVars>>
    \/ \E t \in SeqLoops : TaskRequest(t) /\ UNCHANGED <<kmVars, limVars, storeVars, schedVars, clientVars, recVars, lvVars, concVars, authVars>>
    \/ \E t \in SeqLoops, ok \in BOOLEAN :
          TaskResponse(t, ok) /\ UNCHANGED <<kmVars, limVars, storeVars, schedVars, clientVars, recVars, lvVars, concVars, authVars>>
    \/ \E t \in SeqLoops : TaskPassEnd(t) /\ UNCHANGED <<kmVars, limVars, storeVars, schedVars, clientVars, recVars, lvVars, concVars, authVars>>
    \/ SeqTick /\ UNCHANGED <<kmVars, limVars, storeVars, schedVars, clientVars, recVars, lvVars, concVars, authVars>>

SpecSeq == InitSq /\ [][NextSq]_vars

InitScr == KeysIdle /\ LimiterIdle /\ StoreIdle /\ SchedIdle /\ ClientIdle /\ RecIdle /\ LvIdle /\ ConcIdle /\ SeqIdle /\ InitAuth

NextScr ==
    \E request \in ScrapeRequests : Scrape(request) /\ UNCHANGED <<kmVars, limVars, storeVars, schedVars, clientVars, recVars, lvVars, concVars, seqVars>>

SpecScrape == InitScr /\ [][NextScr]_vars

\* ------------------------------------------------------------------ claims
\* C1: for every token and every tier of its rate state,
\* 0 <= remaining <= capacity in every state reachable from startup by any
\* sequence of acquire_key calls, successful or failed, at any timestamps.
C1_RemainingWithinCapacity ==
    \A k \in DOMAIN limits : \A i \in 1..Len(limits[k]) :
        /\ limits[k][i].remaining >= 0
        /\ limits[k][i].remaining <= limits[k][i].limit

\* a token that was refilled far beyond its capacity has been acquired
C1_Witness ==
    /\ last_call.ok
    /\ limits[last_call.key][1].remaining = LimitPerMinute - 1
    /\ RefillUnits(last_call.before[last_call.key][1], WarmupMillis) > LimitPerMinute

\* C2: every successful acquire_key updates exactly one token's rate state
\* by exactly one limiter acquire, also when the call fell back to the default
\* pool; the permit is never consumed twice.
C2_AcquiredOnce ==
    last_call.ok =>
        /\ Len(last_call.acquired) = 1
        /\ \A k \in DOMAIN limits : k # last_call.key => limits[k] = last_call.before[k]
        /\ \E t \in {last_call.t0, last_call.t1} :
              limits[last_call.key] = MultiLimits_acquire(last_call.before[last_call.key], t).ml

\* the requested pool had no token able to acquire when the call began
C3_PoolUnusable ==
    /\ last_call.key_type \in KeyTypes \ {"Default"}
    /\ last_call.key_type \in DOMAIN keys =>
          \A k \in Range(keys[last_call.key_type]) :
              ~MultiLimits_can_acquire(last_call.before[k], last_call.t0)

\* the default pool had a token within budget when the call turned to it
C3_DefaultHasBudget ==
    /\ "Default" \in DOMAIN keys
    /\ \E k \in Range(keys["Default"]) :
          MultiLimits_can_acquire(last_call.before[k], last_call.t1)

\* C3: a call for a pool that is unconfigured, empty or exhausted returns a
\* token of the default pool or an error, never a token of another pool only;
\* and it returns a default token when the default pool has one within budget.
C3_FallbackToDefault ==
    C3_PoolUnusable =>
        /\ last_call.ok => last_call.key \in Range(keys["Default"])
        /\ ~last_call.ok =>
              last_call.error \in {"Api Key Not Found",
                                   "Available Api Key Not Found Or Limit exceeded"}
        /\ C3_DefaultHasBudget => last_call.ok /\ last_call.key \in Range(keys["Default"])

\* a non-empty pool was exhausted and the call returned the default token
C3_Witness ==
    /\ C3_PoolUnusable
    /\ last_call.key_type \in DOMAIN keys
    /\ Len(keys[last_call.key_type]) > 0
    /\ last_call.ok
    /\ last_call.key = "d"
    /\ last_call.key \notin Range(keys[last_call.key_type])

\* C4: when a loader pass completes on its vector, every label tuple of the
\* vector names an entity of the inventory snapshot current at that moment,
\* whatever refreshes ran during the pass.
C4_NoPhantomAtCompletion ==
    [][LoaderPrune => \A l \in DOMAIN metric_vec' : l[1] \in Names(store')]_vars

\* C5: after record_droplets_metrics / record_app_metrics ran on a snapshot,
\* no info gauge keeps a series whose first label names an entity absent
\* from that snapshot.
C5_InfoGaugesPruned ==
    recorded.fresh =>
        \A g \in DOMAIN info : \A l \in DOMAIN info[g] : l[1] \in Names(store)

\* snapshots [a, b] and then [a]: the memory series of b was there and is gone
C5_Witness ==
    /\ recorded.fresh
    /\ recorded.count >= 2
    /\ <<"b">> \in DOMAIN recorded.before.memory_gauge
    /\ Names(store) = {"a"}
    /\ DOMAIN info.memory_gauge = {<<"a">>}

RECURSIVE ConcatPages(_, _)
\* the entries of the first n responses, converted, in page order
ConcatPages(responses, n) ==
    IF n = 0 THEN << >>
    ELSE ConcatPages(responses, n - 1) \o
         (IF kind = "droplet" THEN MapSeq(responses[n].entries, BasicDropletInfo_from)
          ELSE MapSeq(responses[n].entries, BasicAppInfo_from))

C7_StopsAtFirstWithoutNext ==
    LET n == Len(loading.responses)
        goes_on(r) == r.ok /\ r.next
    IN  /\ loading.pc = "fetching" => \A i \in 1..n : goes_on(loading.responses[i])
        /\ (loading.pc # "fetching" /\ n > 0) =>
              /\ ~goes_on(loading.responses[n])
              /\ \A i \in 1..(n - 1) : goes_on(loading.responses[i])
        /\ loading.outcome = "ok" <=>
              (loading.pc # "fetching" /\ n > 0 /\ loading.responses[n].ok)
        /\ loading.outcome = "err" <=>
              (loading.pc # "fetching" /\ n > 0 /\ ~loading.responses[n].ok)

\* an empty page with a next link was followed by a request whose entries
\* were stored
C7_Witness ==
    /\ loading.outcome = "ok"
    /\ Len(loading.responses) = 2
    /\ loading.responses[1].entries = << >>
    /\ loading.responses[1].next
    /\ Len(loading.responses[2].entries) = 1
    /\ Len(store) = 1

\* C8: the restart count loop's first pass at time T queries [T-1s, T-1s];
\* a later pass at time N queries [previous_end + 1s, N - 1s]; the start of
\* a window is after the end of the window before it.
C8_WindowsDoNotOverlap ==
    (loop = "app_restart_count" /\ restart.count >= 1) =>
        /\ restart.window.interval_end = restart.window.at - 1000
        /\ restart.count = 1 => restart.window.interval_start = restart.window.at - 1000
        /\ restart.count >= 2 =>
              /\ restart.window.interval_start = restart.previous.interval_end + 1000
              /\ restart.window.interval_start > restart.previous.interval_end
              /\ restart.previous.interval_end = restart.previous.at - 1000

\* a third pass, two seconds or more after the second
C8_Witness ==
    /\ loop = "app_restart_count"
    /\ restart.count = 3
    /\ restart.window.at >= restart.previous.at + 2000
    /\ restart.window.interval_start < restart.window.interval_end

\* the passes of the loop that have returned
C9_Passes == passes.success + passes.fail

\* C9 as stated: with the jobs metric enabled, for every loop type, the agent
\* loop included, the jobs_counter series of the type sum to its passes.
C9_EveryLoopCounts ==
    are_metrics_enabled =>
        LET T == IF loop = "agent" THEN "agent" ELSE JobName(loop)
        IN  jobs_counter[<<T, "success">>] + jobs_counter[<<T, "fail">>] = C9_Passes

\* C9: with the jobs metric enabled, for every inventory and metric loop the
\* jobs_counter series of its type count its passes, one outcome per pass;
\* the agent loop records no outcome.
C9_LoopsButAgentCount ==
    /\ (are_metrics_enabled /\ loop # "agent") =>
          /\ jobs_counter[<<JobName(loop), "success">>] = passes.success
          /\ jobs_counter[<<JobName(loop), "fail">>] = passes.fail
          /\ \A l \in DOMAIN jobs_counter : l[1] # JobName(loop) => jobs_counter[l] = 0
    /\ loop = "agent" => \A l \in DOMAIN jobs_counter : jobs_counter[l] = 0

\* a metric loop with passes of both outcomes
C9_Witness ==
    /\ are_metrics_enabled
    /\ loop = "cpu"
    /\ passes.success >= 1
    /\ passes.fail >= 1
    /\ jobs_counter[<<"cpu", "fail">>] >= 1

\* remaining + refill of tier i of the limiter before the last call, with
\* refill = floor(elapsed_ms * capacity / window_ms)
C10_Units(i) ==
    LET rl == lim_op.before[i]
        elapsed == IF lim_op.t >= rl.last_attempt_time
                   THEN lim_op.t - rl.last_attempt_time ELSE 0
    IN  rl.remaining + ((elapsed * rl.limit) \div rl.limit_interval)

\* the last call was made on a limiter of one tier
C10_OneTier == lim_op.op # "new" /\ Len(lim_op.before) = 1

C11_NoToken ==
    /\ last_call.key_type \in KeyTypes
    /\ last_call.key_type = "Default" \/ C3_PoolUnusable
    /\ ~C3_DefaultHasBudget

\* the requested pool is unconfigured or empty, and the default pool is empty
C11_BothEmpty ==
    /\ last_call.key_type \in KeyTypes
    /\ last_call.key_type \in DOMAIN keys => keys[last_call.key_type] = << >>
    /\ keys["Default"] = << >>

\* C11 as stated: with both pools empty the call returns the key-not-found
\* error ("Api Key Not Found"); with tokens configured but none within budget
\* it returns the limit-exceeded error.
C11_AsStated ==
    /\ C11_BothEmpty => (~last_call.ok /\ last_call.error = "Api Key Not Found")
    /\ (C11_NoToken /\ ~C11_BothEmpty) =>
          (~last_call.ok /\
           last_call.error = "Available Api Key Not Found Or Limit exceeded")

\* C11: a call that finds no token able to acquire, in the requested pool and
\* in the default pool, returns an error, the same one whether the pools are
\* empty or exhausted ("Available Api Key Not Found Or Limit exceeded"), and
\* updates no rate state; "Api Key Not Found" is never returned, the default
\* pool being always present, if empty.
C11_OneError ==
    /\ C11_NoToken =>
          /\ ~last_call.ok
          /\ last_call.error = "Available Api Key Not Found Or Limit exceeded"
          /\ limits = last_call.before
    /\ ~last_call.ok => (last_call.key_type \in KeyTypes => C11_NoToken)
    /\ last_call.error # "Api Key Not Found"

\* both pools empty: the call for Droplets failed
C11_Witness ==
    /\ C11_BothEmpty
    /\ last_call.key_type = "Droplets"
    /\ ~last_call.ok
    /\ last_call.error = "Available Api Key Not Found Or Limit exceeded"

\* the value of a series of a counter vector, 0 when the series is absent
C12_Count(counter, label) == IF label \in DOMAIN counter THEN counter[label] ELSE 0

\* limits metric on, the cpu pool holds one exhausted token, the default pool
\* one token never used since startup, and acquire_key(DropletCpu) was called
C12_Case ==
    /\ limits_metrics_enabled
    /\ last_call.key_type = "DropletCpu"
    /\ "DropletCpu" \in DOMAIN keys
    /\ Len(keys["DropletCpu"]) = 1
    /\ ~MultiLimits_can_acquire(last_call.before[keys["DropletCpu"][1]], last_call.t0)
    /\ keys["Default"] = <<"d">>
    /\ \A i \in 1..2 : /\ last_call.before["d"][i].remaining = 0
                       /\ last_call.before["d"][i].last_attempt_time = 0

C13_Received == exchange.made /\ exchange.x.bearer # "" /\ exchange.x.sent

\* that call was made by the pass client_pass describes
C13_InThisPass == C13_Received /\ client_pass.responses > 0

\* C13: a response with status 204 and an empty body makes the client call
\* succeed, and the pass goes on with the next entity instead of failing.
C13_NoContentSucceeds ==
    (C13_Received /\ exchange.x.status = "204") =>
        /\ exchange.result.ok
        /\ C13_InThisPass => ~client_pass.failed

C15_CountedOnce ==
    C13_Received =>
        LET label == <<RequestLabel(client_loop), exchange.x.status>>
        IN  /\ C12_Count(requests_counter, label) =
                  C12_Count(exchange.counter_before, label) + 1
            /\ \A l \in DOMAIN requests_counter \ {label} :
                  requests_counter[l] = C12_Count(exchange.counter_before, l)

\* the pass has returned and one of its requests was answered with a status
\* that is not 2xx
C15_RejectedPass == client_pass.pc = "idle" /\ client_pass.rejected

\* C15 as stated: with the requests metric enabled every response received
\* is counted once under {type, status code}, and the pass that issued a
\* request answered non-2xx records a fail job outcome.
C15_AsStated ==
    (exporter_enabled /\ requests_metric) =>
        /\ C15_CountedOnce
        /\ C15_RejectedPass =>
              jobs_counter[<<JobName(client_loop), "fail">>] >= 1

\* C15: with the requests metric enabled every response received, a non-2xx
\* one included, is counted once under {type, status code}; the pass that
\* issued a request answered non-2xx fails, and its fail outcome is recorded
\* in jobs_counter when the jobs metric is enabled (and not otherwise).
C15_CountedAndFailed ==
    /\ (exporter_enabled /\ requests_metric) => C15_CountedOnce
    /\ ~(exporter_enabled /\ requests_metric) => requests_counter = << >>
    /\ C15_RejectedPass =>
          /\ client_pass.failed
          /\ passes.fail >= 1
          /\ jobs_counter[<<JobName(client_loop), "fail">>] =
                IF are_metrics_enabled THEN passes.fail ELSE 0

\* a 401 on a cpu request, counted, and the pass recorded as failed
C15_Witness ==
    /\ exporter_enabled /\ requests_metric /\ jobs_metric
    /\ client_loop = "cpu"
    /\ C15_RejectedPass
    /\ exchange.x.status = "401"
    /\ C12_Count(requests_counter, <<"cpu", "401">>) = 1
    /\ jobs_counter[<<"cpu", "fail">>] = 1

\* C16: a call of the reconciler with the valid set S removes exactly the
\* series whose primary-key label is not in S and leaves every other series
\* with its value; with S empty every series goes, and an empty vector stays
\* empty.
C16_RemovesExactlyStale ==
    reconcile_op.made =>
        LET before == reconcile_op.before
            S == reconcile_op.valid
        IN  /\ DOMAIN gauge_vec = {l \in DOMAIN before : l[1] \in S}
            /\ \A l \in DOMAIN gauge_vec : gauge_vec[l] = before[l]
            /\ S = {} => DOMAIN gauge_vec = {}
            /\ DOMAIN before = {} => DOMAIN gauge_vec = {}

\* series of A, B and C with two labels; B is reconciled away, the rest stays
C16_Witness ==
    /\ reconcile_op.made
    /\ reconcile_op.valid = {"droplet-A", "droplet-C"}
    /\ DOMAIN reconcile_op.before =
          {<<"droplet-A", "x">>, <<"droplet-B", "x">>, <<"droplet-B", "y">>,
           <<"droplet-C", "y">>}
    /\ DOMAIN gauge_vec = {<<"droplet-A", "x">>, <<"droplet-C", "y">>}
    /\ gauge_vec[<<"droplet-A", "x">>] # gauge_vec[<<"droplet-C", "y">>]

\* C17: the reconciler is idempotent: a second call with the same valid set
\* changes nothing.
C17_Idempotent ==
    /\ reconcile_op.calls = 2 =>
          /\ DOMAIN gauge_vec = DOMAIN reconcile_op.before
          /\ \A l \in DOMAIN gauge_vec : gauge_vec[l] = reconcile_op.before[l]
    /\ LET again == remove_old_droplets(gauge_vec, reconcile_op.valid)
       IN  reconcile_op.made =>
              /\ DOMAIN again = DOMAIN gauge_vec
              /\ \A l \in DOMAIN again : again[l] = gauge_vec[l]

\* two calls in a row with the valid set {B}: the series of B is still there
C17_Witness ==
    /\ reconcile_op.calls = 2
    /\ reconcile_op.valid = {"droplet-B"}
    /\ DOMAIN gauge_vec = {<<"droplet-B">>}

\* the info gauges after recording the snapshot and toggles once more
C18_Again ==
    IF kind = "droplet" THEN record_droplets_metrics(info, store, store_metrics)
    ELSE record_app_metrics(info, store, store_metrics)

\* C18: recording the info gauges is idempotent: with the snapshot and the
\* toggles unchanged, a second recording leaves every gauge, its series and
\* their values, as the first one left them, whatever the gauges held before.
C18_RecordIdempotent ==
    recorded.fresh =>
        \A g \in DOMAIN info :
            /\ DOMAIN C18_Again[g] = DOMAIN info[g]
            /\ \A l \in DOMAIN info[g] : C18_Again[g][l] = info[g][l]

\* a recording over gauges left by an earlier snapshot, which it changed
C18_Witness ==
    /\ recorded.fresh
    /\ recorded.count >= 2
    /\ Len(store) >= 1
    /\ store_metrics # {}
    /\ \E g \in DOMAIN info :
          /\ DOMAIN recorded.before[g] # {}
          /\ DOMAIN info[g] # {}
          /\ DOMAIN recorded.before[g] # DOMAIN info[g]

\* the limiter was found exhausted by an acquire at lim_op.t, every acquire
\* before it having been made at a time up to lim_op.t
C19_Exhausted ==
    /\ lim_op.op = "acquire"
    /\ ~lim_op.ok
    /\ \A i \in 1..Len(limiter) : limiter[i].last_attempt_time <= lim_op.t

\* the tiers that refuse at lim_op.t, and the longest of their windows
C19_ExhaustedTiers ==
    {i \in 1..Len(limiter) : ~RateLimiter_can_acquire(limiter[i], lim_op.t)}

C19_Window ==
    LET windows == {limiter[i].limit_interval : i \in C19_ExhaustedTiers}
    IN  CHOOSE w \in windows : \A v \in windows : v <= w

\* C19 as stated: a limiter driven to exhaustion by acquires up to time t
\* cannot acquire at t, and can acquire again once the window of every
\* exhausted tier has elapsed: can_acquire(t + window) is true.
C19_AsStated ==
    C19_Exhausted =>
        /\ ~MultiLimits_can_acquire(limiter, lim_op.t)
        /\ MultiLimits_can_acquire(limiter, lim_op.t + C19_Window)

\* C19: a limiter driven to exhaustion by acquires up to time t cannot acquire
\* at t; once the window of every exhausted tier has elapsed it can acquire
\* again exactly when every tier has a limit of two or more (a tier of limit
\* one keeps its only permit back and never acquires).
C19_RecoversFromTwo ==
    C19_Exhausted =>
        /\ ~MultiLimits_can_acquire(limiter, lim_op.t)
        /\ MultiLimits_can_acquire(limiter, lim_op.t + C19_Window)
              <=> \A i \in 1..Len(limiter) : limiter[i].limit >= 2

\* two tiers that have acquired, the large one exhausted at lim_op.t, and
\* both ready again one window of the large tier later
C19_Witness ==
    /\ C19_Exhausted
    /\ Len(limiter) = 2
    /\ C19_ExhaustedTiers = {2}
    /\ limiter[2].remaining >= 1
    /\ MultiLimits_can_acquire(limiter, lim_op.t + limiter[2].limit_interval)

\* C20: MultiLimits::acquire is all or nothing: it returns true exactly when
\* every tier estimates a remaining above zero at now; then every tier has
\* its remaining set to that estimate and its last update set to now; when it
\* returns false no tier is changed, whatever headroom the other tiers have.
C20_AllOrNothing ==
    lim_op.op = "acquire" =>
        LET before == lim_op.before
            est(i) == RateLimiter_estimate_remaining(before[i], lim_op.t)
        IN  /\ lim_op.ok <=> \A i \in 1..Len(before) : est(i) > 0
            /\ lim_op.ok =>
                  \A i \in 1..Len(before) :
                      /\ limiter[i].remaining = est(i)
                      /\ limiter[i].last_attempt_time = lim_op.t
                      /\ limiter[i].limit = before[i].limit
                      /\ limiter[i].limit_interval = before[i].limit_interval
            /\ ~lim_op.ok => limiter = before

\* a two-tier acquire refused by the large tier alone: the small tier had
\* headroom and was left as it was
C20_Witness ==
    /\ lim_op.op = "acquire"
    /\ ~lim_op.ok
    /\ Len(limiter) = 2
    /\ RateLimiter_can_acquire(limiter[1], lim_op.t)
    /\ ~RateLimiter_can_acquire(limiter[2], lim_op.t)
    /\ limiter[1].remaining >= 1

\* a two-tier acquire that succeeded
C20_WitnessAcquired ==
    /\ lim_op.op = "acquire"
    /\ lim_op.ok
    /\ Len(limiter) = 2

\* the points of the series that carry its maximum timestamp
C21_Latest ==
    {i \in 1..Len(points) : \A j \in 1..Len(points) :
                                points[j].timestamp <= points[i].timestamp}

C21_WitnessUnparsed ==
    /\ sample.written
    /\ Len(points) = 2
    /\ points[2] = [timestamp |-> 2, value |-> "x"]
    /\ points[1] = [timestamp |-> 1, value |-> "1"]
    /\ sample.value = 0

\* C22: token selection is serialized: every call of acquire_key has the
\* outcome of the sequential acquire_key applied to the state the call before
\* it (in lock order) left, whatever other callers are in flight; so a call
\* that returns a token found the limiter of that token ready to acquire, and
\* two concurrent callers never both obtain the last permit of a token.
C22_Serialized ==
    \A c \in Callers :
        callers[c].pc = "done" =>
            /\ callers[c].replaced = callers[c].seen
            /\ callers[c].written = callers[c].serial.limits
            /\ callers[c].ok => callers[c].permit

\* at most one caller is between lock and unlock
C22_OneInside ==
    Cardinality({c \in Callers : callers[c].pc = "inside"}) <= 1

\* two callers in flight at once for the pool whose last token had one permit
\* left: the one that locked first got it, the other was refused
C22_Witness ==
    \E c \in Callers, o \in Callers :
        /\ c # o
        /\ callers[c].pc = "done" /\ callers[o].pc = "done"
        /\ callers[c].contended
        /\ callers[c].key_type = callers[o].key_type
        /\ callers[c].ok /\ callers[c].key = "d"
        /\ ~callers[o].ok
        /\ callers[o].seen = callers[c].written

\* C23: the snapshot is replaced as a whole, and only when a refresh has
\* fetched every page: the store changes only in the step that ends a refresh
\* with Ok, and to the concatenation of all its pages; a reader (the loader's
\* list_droplets() calls, record_droplets_metrics) takes the store as it is,
\* so it holds the previous or the new snapshot, never a prefix or a mix.
C23_WholeSnapshot ==
    [][ /\ store' # store =>
             /\ loading.pc = "fetching"
             /\ loading'.pc = "loaded"
             /\ ~loading'.responses[Len(loading'.responses)].next
             /\ store' = ConcatPages(loading'.responses, Len(loading'.responses))
        /\ loader'.snapshot # loader.snapshot =>
             /\ store' = store
             /\ loader'.snapshot = store
        /\ loader'.names # loader.names =>
             /\ store' = store
             /\ loader'.names \in {{}, Names(store)}
        /\ info' # info =>
             /\ store' = store
             /\ loading.pc = "loaded"
      ]_vars

\* a loader holds the previous snapshot while a refresh has fetched a first
\* page of a different listing and goes on to the next page
C23_Witness ==
    /\ loader.pc = "requesting"
    /\ Len(loader.snapshot) >= 1
    /\ loader.snapshot = store
    /\ loading.pc = "fetching"
    /\ Len(loading.result) >= 1
    /\ loading.result # store

\* a pass ends with Err in this step
C24_PassFails == loop_state.pc = "running" /\ passes'.fail = passes.fail + 1

\* the loop returned although it was enabled
C24_Terminated ==
    /\ loop_state.pc = "returned"
    /\ IF loop = "agent" THEN exporter_enabled
       ELSE loop = "droplets" \/ section = "enabled"

\* C24 as stated: after a pass that fails the loop records a fail outcome,
\* sleeps its interval and eventually starts another pass, and it never
\* terminates.
C24_AsStated ==
    /\ [][C24_PassFails =>
            /\ are_metrics_enabled =>
                  \E job \in JobNames :
                      jobs_counter'[<<job, "fail">>] = jobs_counter[<<job, "fail">>] + 1
            /\ loop_state'.pc = "sleeping"
            /\ loop_state'.wake = clock + interval]_vars
    /\ []~C24_Terminated
    /\ (loop_state.pc = "sleeping" /\ passes.fail >= 1 /\ passes.started < MaxLoopPasses)
          ~> (loop_state.pc = "running")

\* C24: an enabled loop never terminates on error: after a pass that fails
\* the loop sleeps its interval and eventually starts another pass, and it
\* never returns; the fail outcome is recorded in jobs_counter by every loop
\* but the agent loop, when the jobs metric is enabled.
C24_GoesOnAfterFailure ==
    /\ [][C24_PassFails =>
            /\ jobs_counter' =
                  IF are_metrics_enabled /\ loop # "agent"
                  THEN [jobs_counter EXCEPT ![<<JobName(loop), "fail">>] = @ + 1]
                  ELSE jobs_counter
            /\ loop_state'.pc = "sleeping"
            /\ loop_state'.wake = clock + interval]_vars
    /\ []~C24_Terminated
    /\ (loop_state.pc = "sleeping" /\ passes.fail >= 1 /\ passes.started < MaxLoopPasses)
          ~> (loop_state.pc = "running")

\* a pass that started after a failed one
C24_Witness ==
    /\ loop_state.pc = "running"
    /\ passes.fail >= 1
    /\ passes.started = passes.fail + passes.success + 1
    /\ are_metrics_enabled
    /\ loop = "cpu"
    /\ jobs_counter[<<"cpu", "fail">>] = passes.fail

\* the pool the last call selected from, and the time it selected at
C25_Pool ==
    IF last_call.fellback THEN keys["Default"] ELSE keys[last_call.key_type]

C25_Time == IF last_call.fellback THEN last_call.t1 ELSE last_call.t0

\* the sum over the tiers of estimate_remaining of the token at position i
C25_Score(i) ==
    LET ml == last_call.before[C25_Pool[i]]
    IN  RateLimiter_estimate_remaining(ml[1], C25_Time)
        + RateLimiter_estimate_remaining(ml[2], C25_Time)

\* the positions of the pool whose token could acquire and whose sum is the
\* greatest among those
C25_Best ==
    LET able == {i \in 1..Len(C25_Pool) :
                    MultiLimits_can_acquire(last_call.before[C25_Pool[i]], C25_Time)}
    IN  {i \in able : \A j \in able : C25_Score(j) <= C25_Score(i)}

\* C25 as stated: the call picks, among the tokens of the pool that can
\* acquire, one that maximizes the sum over tiers of estimate_remaining, the
\* first of them in pool order when several tie.
C25_AsStated ==
    (last_call.key_type \in KeyTypes /\ last_call.ok) =>
        \E i \in C25_Best :
            /\ C25_Pool[i] = last_call.key
            /\ \A j \in C25_Best : i <= j

\* C25: the call picks, among the tokens of the pool that can acquire, one
\* that maximizes the sum over tiers of estimate_remaining, the last of them
\* in pool order when several tie (max_by_key keeps the last maximum).
C25_PicksLastMaximum ==
    (last_call.key_type \in KeyTypes /\ last_call.ok) =>
        \E i \in C25_Best :
            /\ C25_Pool[i] = last_call.key
            /\ \A j \in C25_Best : j <= i

\* a pool of two tokens with equal sums: the second was returned
C25_Witness ==
    /\ last_call.ok
    /\ ~last_call.fellback
    /\ C25_Pool = <<"a", "b">>
    /\ C25_Best = {1, 2}
    /\ last_call.key = "b"

\* a pool of two tokens, the first with the greater sum: the first was returned
C25_WitnessGreater ==
    /\ last_call.ok
    /\ ~last_call.fellback
    /\ C25_Pool = <<"a", "b">>
    /\ C25_Best = {1}
    /\ MultiLimits_can_acquire(last_call.before["b"], C25_Time)
    /\ last_call.key = "a"

\* the number of acquires granted with a timestamp in from..to
RECURSIVE C26_GrantedIn(_, _)
C26_GrantedIn(from, to) ==
    IF from > to \/ from > MaxLimTime THEN 0
    ELSE granted[from] + C26_GrantedIn(from + 1, to)

\* C26 as stated: for every tier and every interval [s, s + window) the
\* limiter grants at most capacity acquires with a timestamp in the interval.
C26_AtMostCapacityPerWindow ==
    \A i \in 1..Len(limiter) : \A s \in 0..MaxLimTime :
        C26_GrantedIn(s, s + limiter[i].limit_interval - 1) <= limiter[i].limit

\* what the bucket does keep: fewer than twice the capacity in a window
C26_BelowTwiceCapacity ==
    \A i \in 1..Len(limiter) : \A s \in 0..MaxLimTime :
        C26_GrantedIn(s, s + limiter[i].limit_interval - 1)
            <= 2 * limiter[i].limit - 2

\* the last call returned an error while the limits self-metric is enabled
C27_Failed ==
    limits_metrics_enabled /\ last_call.key_type \in KeyTypes /\ ~last_call.ok

\* the keys_errors series the failure belongs to: the requested purpose, and
\* "key not found" when the requested pool and the default pool hold no token
C27_Label ==
    LET empty(kt) == kt \notin DOMAIN keys \/ Len(keys[kt]) = 0
    IN  <<to_metric_type(last_call.key_type),
          IF empty(last_call.key_type) /\ empty("Default")
          THEN "key not found" ELSE "limit exceeded">>

\* by how much the last call moved the series l of keys_errors
C27_Added(l) ==
    C12_Count(key_error_counter, l) - C12_Count(last_call.counter_before, l)

C27_Labels == DOMAIN key_error_counter \cup {C27_Label}

\* C27 as stated: with the limits self-metric enabled every acquire(purpose)
\* that returns an error increments keys_errors exactly once, in the series
\* of the requested purpose and of the error kind, whatever the purpose
\* (default and purposes without a configured pool included).
C27_EveryErrorCountedOnce ==
    C27_Failed =>
        /\ C27_Added(C27_Label) = 1
        /\ \A l \in C27_Labels \ {C27_Label} : C27_Added(l) = 0

\* what the code does: the error is counted, once and in that series, exactly
\* when the purpose is not default and has a configured pool
C27_CountedForConfiguredPoolOnly ==
    C27_Failed =>
        /\ C27_Added(C27_Label) =
              IF last_call.key_type # "Default" /\ last_call.key_type \in DOMAIN keys
              THEN 1 ELSE 0
        /\ \A l \in C27_Labels \ {C27_Label} : C27_Added(l) = 0

\* a failed call for the default purpose that left keys_errors alone
C27_DefaultNotCounted ==
    C27_Failed /\ last_call.key_type = "Default" /\ C27_Added(C27_Label) = 0

\* a failed call for a purpose without a pool that left keys_errors alone
C27_UnconfiguredNotCounted ==
    C27_Failed /\ last_call.key_type \notin DOMAIN keys /\ C27_Added(C27_Label) = 0

\* a failed call for a purpose with a pool, counted once
C27_ConfiguredCounted ==
    C27_Failed /\ last_call.key_type = "DropletCpu" /\ C27_Added(C27_Label) = 1

\* the series of the loader's vector that carry the name of the entity at
\* position j of the pass, in the vector v
C28_SeriesOf(v, j) == {l \in DOMAIN v : l[1] = loader.snapshot[j].name}

\* the entities the pass did not get to: the one whose request failed and
\* those after it, unless an earlier entity bears the same name
C28_NotReached ==
    {j \in loader.idx..Len(loader.snapshot) :
        \A i \in 1..(loader.idx - 1) : loader.snapshot[i].name # loader.snapshot[j].name}

\* a pass in which a request failed has returned the error, after one request
\* for each entity up to the failing one and none after it, none repeated,
\* and the series of the entities it did not reach are as they were
C28_Aborted ==
    /\ ~loader.ok => loader.pc = "failed"
    /\ loader.pc = "failed" =>
          /\ ~loader.ok
          /\ loader.idx <= Len(loader.snapshot)
          /\ loader.asked = loader.idx
          /\ \A j \in C28_NotReached :
                /\ C28_SeriesOf(metric_vec, j) = C28_SeriesOf(loader.before, j)
                /\ \A l \in C28_SeriesOf(metric_vec, j) : metric_vec[l] = loader.before[l]

\* C28: the first failed request of a loader pass aborts the pass: the pass
\* returns the error, no further request is issued and none is retried, the
\* failing step writes nothing (series written before it keep their new
\* values) and the series of the entities after it keep their previous
\* values; nothing is written or requested until another pass begins.
C28_FirstFailureAborts ==
    [][/\ C28_Aborted'
       /\ loader'.pc = "failed" => metric_vec' = metric_vec
       /\ (loader.pc = "failed" /\ loader' # loader) =>
             (loader'.pc = "requesting" /\ loader'.asked = 0)]_vars

\* a pass over two entities failed at the second: the first one's series,
\* written in this pass, is there, and the second was asked for once
C28_Witness ==
    /\ loader.pc = "failed"
    /\ Len(loader.snapshot) = 2
    /\ loader.idx = 2
    /\ loader.asked = 2
    /\ C28_NotReached = {2}
    /\ \E l \in C28_SeriesOf(metric_vec, 1) : l \notin DOMAIN loader.before

\* a pass failed at an entity whose series an earlier pass had written: the
\* series still has that value
C28_WitnessKept ==
    /\ loader.pc = "failed"
    /\ \E j \in C28_NotReached :
          /\ C28_SeriesOf(loader.before, j) # {}
          /\ \A l \in C28_SeriesOf(loader.before, j) : metric_vec[l] = loader.before[l]

\* a step in which a pass begins
C29_PassBegins == loop_state.pc = "sleeping" /\ loop_state'.pc = "running"

\* the positions of a loop follow one another as spawned, then returned for
\* good or sleeping (the first delay), then running, sleeping, running, ...
C29_Cycle ==
    /\ loop_state.pc = "spawned" => loop_state'.pc \in {"spawned", "sleeping", "returned"}
    /\ loop_state.pc = "sleeping" => loop_state'.pc \in {"sleeping", "running"}
    /\ loop_state.pc = "running" => loop_state'.pc \in {"running", "sleeping"}
    /\ loop_state.pc = "returned" => loop_state'.pc = "returned"

\* C29 as stated: every loop, the inventory loops included, begins its first
\* pass no sooner than min(10 s, interval) after it was started and every
\* later pass no sooner than interval after the pass before ended.
C29_AsStated ==
    [][/\ C29_Cycle
       /\ C29_PassBegins =>
             IF passes.started = 0
             THEN clock' >= StartTime + Min(TenSeconds, interval)
             ELSE clock' >= passes.ended + interval]_vars

\* C29: every metric loop begins its first pass no sooner than
\* min(10 s, interval) after it was started, while an inventory loop may begin
\* its first pass at once; every loop begins each later pass no sooner than
\* interval after the pass before ended, going spawned -> sleeping -> running
\* -> sleeping -> running ...
C29_DelaysBetweenPasses ==
    [][/\ C29_Cycle
       /\ C29_PassBegins =>
             IF passes.started = 0
             THEN clock' >= StartTime + (IF loop = "droplets" THEN 0
                                         ELSE Min(TenSeconds, interval))
             ELSE clock' >= passes.ended + interval]_vars

\* the inventory loop running its first pass at the time it was started
C29_Witness ==
    /\ loop = "droplets"
    /\ loop_state.pc = "running"
    /\ passes.started = 1
    /\ clock = StartTime

\* a metric loop in its second pass, begun exactly interval after the first
\* ended, the first begun exactly min(10 s, interval) after the start
C29_WitnessMetricLoop ==
    /\ loop = "cpu"
    /\ interval > TenSeconds
    /\ loop_state.pc = "running"
    /\ passes.started = 2
    /\ passes.ended = StartTime + TenSeconds
    /\ clock = passes.ended + interval

\* the loop's enabled flag is false, or its metric section is not configured
C30_Disabled ==
    \/ loop \in {"cpu", "app_restart_count"} /\ section # "enabled"
    \/ loop = "agent" /\ ~exporter_enabled

\* nothing of a pass has happened: none begun, none ended, no job outcome
\* recorded, no window of the restart count taken
C30_NothingDone ==
    /\ passes.started = 0
    /\ passes.success = 0
    /\ passes.fail = 0
    /\ \A l \in DOMAIN jobs_counter : jobs_counter[l] = 0
    /\ restart = NoRestart

\* C30: a loop whose enabled flag is false or whose metric section is not
\* configured returns at once: it never runs a pass (so it issues no request
\* and takes no permit), records no job outcome, and once returned it stays
\* returned.
C30_DisabledReturns ==
    [][/\ C30_Disabled' =>
             /\ loop_state'.pc \in {"spawned", "returned"}
             /\ C30_NothingDone'
       /\ loop_state.pc = "spawned" =>
             (C30_Disabled <=> loop_state'.pc \in {"spawned", "returned"})
       /\ loop_state.pc = "returned" => (C30_Disabled /\ loop_state' = loop_state)]_vars

\* a loop whose section is configured with enabled = false has returned
C30_Witness ==
    /\ loop = "cpu"
    /\ section = "disabled"
    /\ exporter_enabled /\ jobs_metric
    /\ loop_state.pc = "returned"

\* a loop without a section, and the agent loop of a disabled exporter
C30_WitnessNone == loop = "app_restart_count" /\ section = "none" /\ loop_state.pc = "returned"

C30_WitnessAgent == loop = "agent" /\ ~exporter_enabled /\ loop_state.pc = "returned"

\* the pool a request of the loop is to draw from
C31_Purpose == IF client_loop = "cpu" THEN "DropletCpu" ELSE "Droplets"

\* the tokens a request of the loop may carry: those of its pool and those
\* of the default pool
C31_Tokens ==
    Range(keys["Default"])
    \cup (IF C31_Purpose \in DOMAIN keys THEN Range(keys[C31_Purpose]) ELSE {})

\* C31: every call of the client makes one key-manager acquire, for the
\* purpose of its request type; when the acquire succeeds exactly one HTTP
\* request is issued and it carries the token the acquire returned; when the
\* acquire fails no HTTP request is issued and no request metric is
\* recorded; and no request is issued without a call.
C31_AcquireBeforeRequest ==
    [][/\ calls' = calls =>
             (http_sent' = http_sent /\ requests_counter' = requests_counter)
       /\ calls' # calls =>
             /\ calls' = calls + 1
             /\ last_call'.key_type = C31_Purpose
             /\ IF last_call'.ok
                THEN /\ http_sent' = Append(http_sent, last_call'.key)
                     /\ last_call'.key \in C31_Tokens
                     /\ Len(last_call'.acquired) >= 1
                     /\ Range(last_call'.acquired) = {last_call'.key}
                ELSE /\ http_sent' = http_sent
                     /\ requests_counter' = requests_counter
                     /\ last_call'.acquired = << >>]_vars

\* a request went out with the token of the loop's own pool, after an
\* earlier call of the loop had failed to acquire and sent nothing
C31_Witness ==
    /\ last_call.ok
    /\ last_call.key_type = "DropletCpu"
    /\ "DropletCpu" \in DOMAIN keys
    /\ last_call.key \in Range(keys["DropletCpu"])
    /\ exchange.x.bearer = last_call.key
    /\ exchange.x.sent
    /\ Len(http_sent) >= 1
    /\ http_sent[Len(http_sent)] = last_call.key
    /\ Len(http_sent) < calls

\* an acquire failed with the requests self-metric enabled: nothing was sent
C31_WitnessFailed ==
    /\ ~last_call.ok
    /\ calls >= 1
    /\ requests_metric
    /\ exchange.x.bearer = ""
    /\ Len(http_sent) < calls

\* the entities task t has asked for in its pass are 1, 2, ... in that order
C32_InOrder(t) == \A i \in 1..Len(tasks[t].order) : tasks[t].order[i] = i

\* task t has one request in flight exactly while it awaits, and none otherwise
C32_OneInFlight(t) ==
    /\ tasks[t].in_flight \in {0, 1}
    /\ tasks[t].in_flight = 1 <=> tasks[t].pc = "awaiting"

\* C32: each loop is sequential: it has at most one request in flight, asks
\* for the entities of its pass one after another in snapshot order, and
\* begins a pass only when its previous pass has finished and the sleep after
\* it has elapsed; the loops do not constrain each other.
C32_LoopsAreSequential ==
    [][\A t \in SeqLoops :
          /\ C32_OneInFlight(t)'
          /\ C32_InOrder(t)'
          /\ tasks'[t].passes # tasks[t].passes =>
                /\ tasks[t].pc = "sleeping"
                /\ tasks[t].in_flight = 0
                /\ tasks[t].passes > 0 => ticks >= tasks[t].ended + tasks[t].interval
                /\ tasks[t].passes = 0 => ticks >= Min(TenSeconds, tasks[t].interval)]_vars

\* both loops have a request in flight at once, one of them for its second
\* entity, in its second pass
C32_Witness ==
    /\ tasks["cpu"].pc = "awaiting"
    /\ tasks["filesystem"].pc = "awaiting"
    /\ tasks["cpu"].order = <<1, 2>>
    /\ tasks["cpu"].passes = 2

\* C34 as stated: with Basic authentication enabled, a scrape gets the
\* metrics only if its username equals the configured login and its password
\* equals the configured password; a missing header, a wrong username or a
\* wrong password is answered 401.
C34_OnlyWithBothCredentials ==
    (scrape.made /\ auth.configured /\ auth.enabled) =>
        (scrape.status = "200" <=>
            /\ scrape.request.header = "basic"
            /\ scrape.request.username = auth.login
            /\ scrape.request.password = auth.password)

\* what the handler does: with a Basic header, 401 only when both the
\* username and the password are wrong
C34_RejectsOnlyBothWrong ==
    (scrape.made /\ auth.configured /\ auth.enabled) =>
        (scrape.status = "401" <=>
            \/ scrape.request.header # "basic"
            \/ (scrape.request.username # auth.login
                /\ scrape.request.password # auth.password))

\* the right username with a wrong password got the metrics
C34_WrongPasswordAccepted ==
    /\ scrape.made /\ auth.configured /\ auth.enabled
    /\ scrape.request.header = "basic"
    /\ scrape.request.username = auth.login
    /\ scrape.request.password # auth.password
    /\ scrape.status = "200"

\* the status-style gauge of the store's kind, whether its metric is enabled,
\* and the attribute it labels an entity with
C33_Gauge == IF kind = "droplet" THEN info.status_gauge ELSE info.active_gauge

C33_Enabled ==
    IF kind = "droplet" THEN "Status" \in store_metrics
    ELSE "ActiveDeploymentPhase" \in store_metrics

C33_Attribute(e) == IF kind = "droplet" THEN e.status ELSE e.active_deployment_phase

\* the info gauges were recorded from the snapshot the store holds now, and
\* no two entities of it share a name
C33_Recorded ==
    /\ recorded.fresh
    /\ loading.pc = "idle"
    /\ C33_Enabled
    /\ \A i, j \in 1..Len(store) : store[i].name = store[j].name => i = j

\* C33 as stated: after record_info_metrics every entity of the inventory has
\* exactly one status-style info series, labelled with its current status or
\* phase, also when that attribute changed between two refreshes.
C33_OneStatusSeriesPerEntity ==
    C33_Recorded =>
        \A i \in 1..Len(store) :
            {l \in DOMAIN C33_Gauge : l[1] = store[i].name}
                = {<<store[i].name, C33_Attribute(store[i])>>}

\* what the code keeps: the series of the current attribute is there
C33_CurrentSeriesPresent ==
    C33_Recorded =>
        \A i \in 1..Len(store) :
            <<store[i].name, C33_Attribute(store[i])>> \in DOMAIN C33_Gauge

\* a droplet whose status went from active to off has both series
C33_BothSeries ==
    /\ C33_Recorded
    /\ kind = "droplet"
    /\ Len(store) = 1
    /\ store[1].status = "off"
    /\ {<<"a", "active">>, <<"a", "off">>} \subseteq DOMAIN info.status_gauge

\* C35: the restart count loop moves the start of its next window past the
\* end of the window of every pass it begins, and the outcome of a pass
\* moves nothing back: each window starts where the one before told the next
\* to start, after every instant queried so far, so no instant is queried in
\* two passes and the window of a failed pass is not queried again.
C35_AdvancesOnEveryPass ==
    [][loop = "app_restart_count" =>
          /\ restart'.count = restart.count => restart' = restart
          /\ restart'.count # restart.count =>
                /\ restart'.count = restart.count + 1
                /\ restart'.last_interval_end.some
                /\ restart'.window.interval_end < restart'.last_interval_end.v
                /\ restart.count >= 1 =>
                      /\ restart'.window.interval_start = restart.last_interval_end.v
                      /\ restart'.window.interval_start > restart.window.interval_end
                      /\ timestamp(restart'.window.interval_start)
                            > timestamp(restart.window.interval_end)
                      /\ restart'.last_interval_end.v > restart.last_interval_end.v]_vars

\* the second pass runs after the first one failed, with a window that
\* starts after the end of the failed one
C35_Witness ==
    /\ loop = "app_restart_count"
    /\ loop_state.pc = "running"
    /\ restart.count = 2
    /\ passes.fail = 1
    /\ passes.success = 0
    /\ restart.window.interval_start > restart.previous.interval_end
    /\ restart.window.interval_start <= restart.window.interval_end

\* C36 as stated: every window the restart count loop passes to the loader
\* has interval_start <= interval_end, for every pass and every interval.
C36_WindowWellFormed ==
    (loop = "app_restart_count" /\ restart.count >= 1) =>
        restart.window.interval_start <= restart.window.interval_end

\* what holds: the window is well formed in the first pass, and in a later
\* pass when a second or more has gone by since the pass before began
C36_WellFormedFromOneSecond ==
    (loop = "app_restart_count" /\ restart.count >= 1) =>
        /\ restart.count = 1 => restart.window.interval_start = restart.window.interval_end
        /\ restart.count >= 2 =>
              (restart.window.interval_start <= restart.window.interval_end
                 <=> restart.window.at >= restart.previous.at + OneSecond)

\* an interval of half a second: the second window ends before it starts
C36_Inverted ==
    /\ loop = "app_restart_count"
    /\ interval < OneSecond
    /\ restart.count = 2
    /\ restart.window.interval_start > restart.window.interval_end

\* C37: a key-manager acquire that returns an error leaves the rate state of
\* every token as it was: the same tokens, and for each of them the same
\* remaining and last_attempt_time in every tier.
C37_FailedAcquireKeepsRateState ==
    [][(calls' = calls + 1 /\ ~last_call'.ok) =>
          /\ DOMAIN limits' = DOMAIN limits
          /\ \A k \in DOMAIN limits : \A i \in 1..Len(limits[k]) :
                /\ limits'[k][i].remaining = limits[k][i].remaining
                /\ limits'[k][i].last_attempt_time = limits[k][i].last_attempt_time]_vars

\* a call failed at a later moment than the one its pool's token was last
\* charged at, with tokens configured
C37_Witness ==
    /\ calls > 1
    /\ ~last_call.ok
    /\ last_call.key_type \in DOMAIN keys
    /\ keys[last_call.key_type] # << >>
    /\ \E k \in Range(keys[last_call.key_type]) :
          /\ limits[k][1].remaining > 0
          /\ limits[k][1].last_attempt_time < last_call.t0

\* C38: an inventory refresh that fails on a page leaves the stored snapshot
\* as it was, whatever the pages before it held, and is followed by no
\* record_info_metrics: in the step that fails, and from then until the next
\* refresh begins, the store, the info gauges and the count of recordings
\* stay as they were; no page before the last one reaches the store either.
C38_FailedRefreshKeepsSnapshot ==
    [][ /\ (loading.pc = "fetching" /\ loading'.outcome = "err") =>
             /\ store' = store
             /\ info' = info
             /\ recorded'.count = recorded.count
             /\ loading'.pc = "idle"
        /\ (loading.pc = "fetching" /\ loading'.pc = "fetching") =>
             /\ store' = store
             /\ info' = info
        /\ (loading.pc = "idle" /\ loading.outcome = "err") =>
             /\ store' = store
             /\ info' = info
             /\ recorded'.count = recorded.count
      ]_vars

\* a refresh failed on its second page, after a first page that differs from
\* the stored snapshot, with a snapshot stored and recorded before
C38_Witness ==
    /\ loading.pc = "idle"
    /\ loading.outcome = "err"
    /\ Len(loading.responses) = 2
    /\ Len(loading.result) >= 1
    /\ Len(store) >= 1
    /\ loading.result # store
    /\ recorded.count = 1

\* the pools that hold token k
C39_PoolsOf(k) == {kt \in DOMAIN keys : k \in Range(keys[kt])}

\* what pool kt can still acquire in the minute tier at time t: the sum over
\* its distinct tokens
C39_PoolBudget(kt, lim, t) == SumOver(Range(keys[kt]), lim, 0, t)

\* C39: there is one rate state per distinct token, whatever the number of
\* pools that name it, and a call that returns token k takes its permit from
\* that one state: at the moment of the call every pool that holds k can
\* acquire less than before, by the same amount, and no other token changes.
C39_OneRateStatePerToken ==
    [][ /\ DOMAIN limits' = AllKeys(keys')
        /\ (calls' = calls + 1 /\ last_call'.ok) =>
             LET k == last_call'.key
                 t == last_call'.t1
                 taken == MultiLimits_estimate_remaining(limits[k], 0, t)
                            - MultiLimits_estimate_remaining(limits'[k], 0, t)
             IN  /\ k \in AllKeys(keys)
                 /\ taken >= 1
                 /\ \A o \in AllKeys(keys) \ {k} : limits'[o] = limits[o]
                 /\ \A kt \in C39_PoolsOf(k) :
                       C39_PoolBudget(kt, limits', t) = C39_PoolBudget(kt, limits, t) - taken
      ]_vars

\* token "a" is in the default pool and in the droplets pool; it was handed
\* out for Droplets, and the default pool can acquire less from it than before
C39_Witness ==
    /\ last_call.ok
    /\ last_call.key_type = "Droplets"
    /\ last_call.key = "a"
    /\ ~last_call.fellback
    /\ {"Default", "Droplets"} \subseteq C39_PoolsOf("a")
    /\ C39_PoolBudget("Default", limits, last_call.t1)
          < C39_PoolBudget("Default", last_call.before, last_call.t1)

\* C40: a loader pass over an empty snapshot (the store empty when the pass
\* lists it, before the loop and after it) sends no request, so takes no
\* permit, ends with Ok and leaves its vector without any series, whatever the
\* vector held before.
C40_EmptySnapshotPass ==
    [][ /\ (loader.pc = "requesting" /\ loader.snapshot = << >> /\ loader' # loader) =>
             /\ loader'.pc = "pruning"
             /\ loader'.asked = 0
             /\ served' = served
             /\ metric_vec' = metric_vec
        /\ (loader.pc = "pruning" /\ loader.snapshot = << >> /\ loader.names = {}
              /\ loader' # loader) =>
             /\ loader'.pc = "done"
             /\ loader'.ok
             /\ loader'.asked = 0
             /\ served' = served
             /\ metric_vec' = << >>
      ]_vars

\* a pass over an empty snapshot has ended; the vector held series when it
\* began and holds none now
C40_Witness ==
    /\ loader.pc = "done"
    /\ loader.snapshot = << >>
    /\ loader.names = {}
    /\ loader.asked = 0
    /\ loader.before # << >>
    /\ metric_vec = << >>

\* the same pass before the first refresh: nothing stored, nothing served
C40_WitnessFirst ==
    /\ loader.pc = "done"
    /\ loader.snapshot = << >>
    /\ loading.outcome = "none"
    /\ served = 0
    /\ metric_vec = << >>

====
